---- MODULE Spec2Model ----
(***************************************************************************)
(* ApiHydra: a client-side request multiplexer.  The model covers the      *)
(* engine of src/ApiHydra.py (class ApiHydra: rotation, worker threads,    *)
(* retry loop, statistics, response list, join) together with the 42-intra *)
(* subclass of src/FtApiHydra.py (bearer shaping, token refresh barrier).  *)
(*                                                                         *)
(* Threads are modelled at the granularity of shared-memory accesses: one  *)
(* action performs the local computation of a thread up to and including   *)
(* one access to shared state (self.apps, self.app_idx, the statistics     *)
(* counters, self.responses, self.refresh_tokens_flag, the clock).  A      *)
(* statement `self.c += d` is a read followed by a write, as the           *)
(* interpreter gives no atomicity for it.                                  *)
(*                                                                         *)
(* _get and _post have the same body up to the HTTP verb and the log text, *)
(* so one set of worker actions models both.                               *)
(***************************************************************************)
EXTENDS Integers, Sequences, FiniteSets, TLC

(* ------------------------------ bounds -------------------------------- *)

\* Last instant of the clock (time.time() takes the values 1..MaxNow).
MaxNow == 2

\* expires_in granted by the token endpoint, in clock units.
TokenTTL == 2

\* max_retries option of the constructor (the default is 50).
max_retries == 1

\* Requests the caller's web console session makes in one run.
MaxRequests == 5

\* max_retries option of the instance whose caller allows many retries.
PatientRetries == 7

(* ------------------------- program constants -------------------------- *)

\* time.time() + 10000: the expiry assumed when the record holds none.
FallbackTTL == 10000

\* app.get('token_expires_in', None): the record holds no expiry.
NoneExp == -2

\* len(resp.content) of the one body the upstream answers with.
BodyLen == 2

\* resp.content of that body: BodyLen bytes "1", a JSON number.
Body200 == [i \in 1..BodyLen |-> 49]

\* api_base, as a sequence of characters.
api_base == <<"B">>

\* The worker threads one run can start (FtApiHydra._get-Thread-<n>); the
\* caller's program says how many it starts (MaxThreads).
Workers == {1, 2, 3, 4}

AppIds == {"a", "b"}

\* Status codes of the API upstream, of the token endpoint and of the
\* application pages of the web console.
Statuses == {200, 404, 429}

TokenStatuses == {200, 401}

PageStatuses == {200, 404, 429}

\* URL arguments a caller passes: a path, an absolute URL, or none at all.
PathUrl == <<"/", "p">>

Urls == {PathUrl, <<"h", "p">>}

Args == {[has |-> TRUE, url |-> u, hdrs |-> {}] : u \in Urls} \cup {[has |-> FALSE, url |-> <<>>, hdrs |-> {}]}

\* The same request for a path, with or without a headers= argument of the
\* caller (the names of the headers it holds).
HeaderArgs == {[has |-> TRUE, url |-> PathUrl, hdrs |-> h] : h \in {{}, {"Accept"}}}

(* ----------------------- the fleet: an ordered dict ------------------- *)

\* The record defaultdict(dict) creates for a missing key: {}.
EmptyRec(k) == [key |-> k, id |-> FALSE, uid |-> FALSE, secret |-> FALSE, tok |-> "", exp |-> NoneExp]

Has(d, k) == \E i \in DOMAIN d : d[i].key = k

IndexOf(d, k) == CHOOSE i \in DOMAIN d : d[i].key = k

Lookup(d, k) == d[IndexOf(d, k)]

\* del d[k]
Del(d, k) == SelectSeq(d, LAMBDA r : r.key # k)

\* self.apps[k] on a defaultdict: a missing key is inserted, at the end.
Touch(d, k) == IF Has(d, k) THEN d ELSE Append(d, EmptyRec(k))

\* self.apps[k]['access_token'] = t; self.apps[k]['token_expires_in'] = e
StoreToken(d, k, t, e) == [i \in DOMAIN Touch(d, k) |-> IF Touch(d, k)[i].key = k THEN [Touch(d, k)[i] EXCEPT !.tok = t, !.exp = e] ELSE Touch(d, k)[i]]

\* A reference to an app dict held in a local variable: either the object
\* now in the fleet under key, or an object that was removed from the fleet
\* (nobody writes to it any more, so its fields are frozen in rec).
NoRef == [live |-> FALSE, key |-> "", rec |-> EmptyRec("")]

LiveRef(k) == [live |-> TRUE, key |-> k, rec |-> EmptyRec("")]

RefRec(d, ref) == IF ref.live THEN Lookup(d, ref.key) ELSE ref.rec

\* list(d): the keys in insertion order.
Keys(d) == [i \in DOMAIN d |-> d[i].key]

\* The workers' references after the keys ks were removed from the dict d.
Detached(ws, d, ks) == [x \in DOMAIN ws |-> IF ws[x].app.live /\ ws[x].app.key \in ks THEN [ws[x] EXCEPT !.app = [live |-> FALSE, key |-> ws[x].app.key, rec |-> Lookup(d, ws[x].app.key)]] ELSE ws[x]]

(* ------------------------------ records -------------------------------- *)

\* App records a credentials file written by the program can hold.
FreshApp(k) == [key |-> k, id |-> TRUE, uid |-> TRUE, secret |-> TRUE, tok |-> "t0", exp |-> 2]

ExpiredApp(k) == [key |-> k, id |-> TRUE, uid |-> TRUE, secret |-> TRUE, tok |-> "t0", exp |-> 1]

\* create_app stored the id and update_app could not scrape the page.
BareApp(k) == [key |-> k, id |-> TRUE, uid |-> FALSE, secret |-> FALSE, tok |-> "", exp |-> NoneExp]

AppKinds(k) == {FreshApp(k), ExpiredApp(k), BareApp(k)}

\* The fleets deserialize can load (json.dump writes the keys sorted).
InitFleets == {<<>>} \cup {<<r>> : r \in AppKinds("a")} \cup {<<r, s>> : r \in AppKinds("a"), s \in AppKinds("b")}

\* The fleets of the runs with two concurrent requests.
DuoFleets == {<<FreshApp("a")>>, <<ExpiredApp("a")>>, <<FreshApp("a"), FreshApp("b")>>, <<ExpiredApp("a"), BareApp("b")>>}

\* The fleets of the runs in which the caller deletes apps.
AdminFleets == {<<FreshApp("a")>>, <<FreshApp("a"), FreshApp("b")>>}

\* The caller's program.  "solo": one request with any argument, while time
\* passes and the stop file may appear.  "duo": two concurrent requests for
\* a path.  "admin": one request for a path, while the caller deletes apps.
\* Every caller joins, reads and clears the responses as it likes.
Callers == {"solo", "duo", "admin", "reader", "store", "pacer", "burst", "shrink", "estop", "shaper", "rotor", "sizer", "patient", "updater"}

\* The callers for which a worker remembers the app of its last attempt.
Tracks(c) == c = "rotor"

MaxThreads(c) == IF c = "burst" THEN 4 ELSE IF c = "estop" THEN 3 ELSE IF c \in {"duo", "reader", "shrink"} THEN 2 ELSE 1

\* The callers whose get and post begin with the admission hook.
Hooked(c) == c \in {"burst", "shrink", "estop"}

\* What the upstream answers: anything, but 200 to every request of the burst.
StatusesOf(c) == IF Hooked(c) THEN {200} ELSE IF c = "patient" THEN {200, 404, 0} ELSE Statuses

\* requests.get / requests.post raises (no connection, timeout) instead of
\* returning a response; 0 stands for no status at all.
Raises(st) == st = 0

\* self.max_retries of the caller's instance.
MaxRetriesOf(c) == IF c = "patient" THEN PatientRetries ELSE max_retries

ArgsOf(c) == IF c = "solo" THEN Args ELSE IF c = "shaper" THEN HeaderArgs ELSE {[has |-> TRUE, url |-> PathUrl, hdrs |-> {}]}

\* The URL is left as the caller gave it.
Normalize_skip(u) == u

\* if url.startswith('/'): url = self.api_base + url
Normalize(u) == IF Len(u) > 0 /\ u[1] = "/" THEN api_base \o u ELSE u

(* ------------------- rationals: delays and rates ----------------------- *)

\* Seconds and rates are fractions n/d with d > 0, compared by cross
\* multiplication.
Rat(n, d) == [n |-> n, d |-> d]

RatEq(x, y) == x.n * y.d = y.n * x.d

RatLess(x, y) == x.n * y.d < y.n * x.d

RatMul(x, y) == Rat(x.n * y.n, x.d * y.d)

RatInv(x) == Rat(x.d, x.n)

RatMin(x, y) == IF RatLess(y, x) THEN y ELSE x

RatMax(x, y) == IF RatLess(x, y) THEN y ELSE x

\* The constructor's defaults in FtApiHydra: requests_per_second = 1/3,
\* min_request_delay = 0.01, retry_delay_factor = 1.1.
DefaultConf == [requests_per_second |-> Rat(1, 3), min_request_delay |-> Rat(1, 100), retry_delay_factor |-> Rat(11, 10)]

\* The options main() passes: requests_per_second = 1.9, min_request_delay = .03.
DriverConf == [requests_per_second |-> Rat(19, 10), min_request_delay |-> Rat(3, 100), retry_delay_factor |-> Rat(11, 10)]

Confs == {DefaultConf, DriverConf}

\* self.refresh_tokens_flag before the first refresh: the constructor's
\* value, which is also the value every completed refresh_tokens leaves.
FlagAtConstruction == FALSE

IdleWorker == [pc |-> "unborn", has |-> FALSE, arg |-> <<>>, url |-> <<>>, retries |-> 0, key |-> "", app |-> NoRef, aid |-> "", tok |-> "", exp |-> NoneExp, tmp |-> 0, snap |-> <<>>, i |-> 0, rst |-> 0, attempts |-> 0, exc |-> "", delay |-> Rat(0, 1), n0 |-> 0, given |-> {}, hdrs |-> {}, prev |-> ""]

\* caller .. main are the program's state.  Three history variables record
\* what the properties speak about: cleared (the workers whose record
\* clear_responses removed), picks (how often get_next_app chose each app)
\* and steady (the key list of the fleet never changed so far).
VARIABLES caller, apps, app_idx, responses, threads, thread_counter, stats, refresh_tokens_flag, now, stopFile, session, wk, main, cleared, picks, steady

\* The state of the caller's side and of the disk: held (the list the
\* caller was handed by get_responses or get_responses_copy), conf (the
\* constructor's pacing options), disk (the files), and the two fields that
\* steer the serialization of the responses.
VARIABLES held, conf, disk, serialize_responses_flag, response_serialization_part

ext == <<held, conf, disk, serialize_responses_flag, response_serialization_part>>

core == <<caller, apps, app_idx, responses, threads, thread_counter, stats, refresh_tokens_flag, now, stopFile, session, wk, main, cleared, picks, steady>>

vars == <<caller, apps, app_idx, responses, threads, thread_counter, stats, refresh_tokens_flag, now, stopFile, session, wk, main, cleared, picks, steady, held, conf, disk, serialize_responses_flag, response_serialization_part>>

(* ------------------------------- the disk ------------------------------ *)

\* A file that does not exist.
NoFile == [kind |-> "missing", val |-> <<>>]

\* The caller holds no list yet.
NoList == [by |-> "", live |-> FALSE, val |-> <<>>]

\* The disk of a run that does not touch it: the credentials file the
\* fleet d was loaded from, no response file, every directory writable.
DiskOf(d) == [apps_file |-> IF d = <<>> THEN NoFile ELSE [kind |-> "json", val |-> d], apps_writable |-> TRUE, cwd_writable |-> TRUE, tmp_writable |-> TRUE, files |-> {}]

InitExt ==
    /\ held = NoList
    /\ conf = DefaultConf
    /\ disk = DiskOf(apps)
    /\ serialize_responses_flag = TRUE
    /\ response_serialization_part = 1

\* The caller's thread before its first call.
InitMain == [pc |-> "idle", op |-> "", k |-> "", req |-> 0, pause |-> Rat(0, 1), last |-> <<>>, finish_called |-> FALSE, n_adm |-> 0, variant |-> "", n |-> 0, todo |-> <<>>, left |-> 0, is_updated |-> FALSE, ids |-> 0, calls |-> 0, seq |-> <<>>]

\* The fields of a new instance, but for the sink, the console session and
\* the caller's thread.
InitShared ==
    /\ app_idx = 0
    /\ threads = <<>>
    /\ thread_counter = 0
    /\ stats = [retries |-> 0, ok |-> 0, non_ok |-> 0, bytes |-> 0]
    /\ refresh_tokens_flag = FlagAtConstruction
    /\ now = 1
    /\ stopFile = FALSE
    /\ wk = [w \in Workers |-> IdleWorker]
    /\ cleared = {}
    /\ picks = [k \in AppIds |-> 0]
    /\ steady = TRUE

\* The fields of a new instance, but for the sink and the console session.
InitFields == InitShared /\ main = InitMain

InitState == InitFields /\ responses = <<>> /\ session = FALSE

Init ==
    /\ \/ caller = "solo" /\ apps \in InitFleets
       \/ caller = "duo" /\ apps \in DuoFleets
       \/ caller = "admin" /\ apps \in AdminFleets
    /\ InitState
    /\ InitExt

EndPcs == {"end_nourl", "end_ok", "end_loss", "end_exit", "end_exc"}

Ended(w) == wk[w].pc \in EndPcs

\* A worker that ends drops its locals.
EndWith(self, p, e) == [IdleWorker EXCEPT !.pc = p, !.exc = e, !.has = self.has, !.arg = self.arg, !.url = self.url, !.attempts = self.attempts]

(* --------------------- the caller (main thread) ------------------------ *)

\* delay = (1 / self.requests_per_second) / len(self.apps);
\* time.sleep(min(delay, self.min_request_delay))
Pause(c, n) == RatMin(RatMul(RatInv(c.requests_per_second), Rat(1, n)), c.min_request_delay)

\* get/post: the thread is appended to self.threads and started, then the
\* caller sleeps for the pacing delay, which divides by len(self.apps).
Submit(a) ==
    /\ main.pc = (IF Hooked(caller) THEN "ready" ELSE "idle")
    /\ thread_counter < MaxThreads(caller)
    /\ a \in ArgsOf(caller)
    /\ threads' = Append(threads, thread_counter + 1)
    /\ thread_counter' = thread_counter + 1
    /\ wk' = [wk EXCEPT ![thread_counter + 1] = [IdleWorker EXCEPT !.pc = "start", !.has = a.has, !.arg = a.url, !.url = a.url, !.given = a.hdrs, !.hdrs = a.hdrs]]
    /\ main' = IF Len(apps) = 0 THEN [main EXCEPT !.pc = "crashed"] ELSE [main EXCEPT !.pc = "idle", !.pause = Pause(conf, Len(apps))]
    /\ UNCHANGED <<ext, caller, apps, app_idx, responses, stats, refresh_tokens_flag, now, stopFile, session, cleared, picks, steady>>

Get(a) == Submit(a)

Post(a) == Submit(a)

\* join() does not wait.
JoinReady_nowait(t) == TRUE

\* thread.join() returns once the thread has terminated.
JoinReady(t) == Ended(t)

\* join(): entered from join() itself or from get_responses().
Join ==
    /\ main.pc = "idle"
    /\ main' = [main EXCEPT !.pc = "join", !.op = "join"]
    /\ UNCHANGED <<ext, caller, apps, app_idx, responses, threads, thread_counter, stats, refresh_tokens_flag, now, stopFile, session, wk, cleared, picks, steady>>

GetResponses ==
    /\ main.pc = "idle"
    /\ main' = [main EXCEPT !.pc = "join", !.op = "get_responses"]
    /\ UNCHANGED <<ext, caller, apps, app_idx, responses, threads, thread_counter, stats, refresh_tokens_flag, now, stopFile, session, wk, cleared, picks, steady>>

\* get_responses_copy(): join() comes first.
GetResponsesCopy ==
    /\ main.pc = "idle"
    /\ main' = [main EXCEPT !.pc = "join", !.op = "get_responses_copy"]
    /\ UNCHANGED <<ext, caller, apps, app_idx, responses, threads, thread_counter, stats, refresh_tokens_flag, now, stopFile, session, wk, cleared, picks, steady>>

\* The copy is the list itself.
DeepCopy_alias(s) == [live |-> TRUE, val |-> <<>>]

\* copy.deepcopy(self.responses): a list of its own, with the records the
\* sink holds now.
DeepCopy(s) == [live |-> FALSE, val |-> s]

\* return self.responses: the list object the instance appends to and clears.
SameList(s) == [live |-> TRUE, val |-> <<>>]

\* What the caller is handed by op.
Returned(op, s) ==
    IF op = "get_responses" THEN [by |-> op] @@ SameList(s)
    ELSE IF op = "get_responses_copy" THEN [by |-> op] @@ DeepCopy(s)
    ELSE NoList

\* The records of the list the caller holds.
ListOf(h) == IF h.live THEN responses ELSE h.val

\* Only the reader keeps the list it was handed; the other callers use it
\* at once and drop it.
Keeps(c) == c = "reader"

\* Where the caller goes on when join() has returned: in get_responses and
\* get_responses_copy, in the admission hook (the exit with code 42, the
\* checkpoint of the sink), or after its own call of join().
AfterJoin(op) ==
    IF op \in {"get_responses", "get_responses_copy"} THEN "got"
    ELSE IF op = "exit" THEN "exit42"
    ELSE IF op = "checkpoint" THEN "ckpt"
    ELSE "idle"

\* for thread in self.threads: thread.join(); self.threads.clear();
\* get_responses then returns self.responses, get_responses_copy a deep
\* copy of it.
JoinDone ==
    /\ main.pc = "join"
    /\ \A i \in DOMAIN threads : JoinReady(threads[i])
    /\ threads' = <<>>
    /\ main' = [main EXCEPT !.pc = AfterJoin(main.op), !.op = ""]
    /\ held' = IF Keeps(caller) /\ main.op \in {"get_responses", "get_responses_copy"} THEN Returned(main.op, responses) ELSE held
    /\ UNCHANGED <<conf, disk, serialize_responses_flag, response_serialization_part>>
    /\ UNCHANGED <<caller, apps, app_idx, responses, thread_counter, stats, refresh_tokens_flag, now, stopFile, session, wk, cleared, picks, steady>>

\* The caller goes on with the list get_responses returned.
GotResponses ==
    /\ main.pc = "got"
    /\ main' = [main EXCEPT !.pc = "idle"]
    /\ UNCHANGED <<ext, caller, apps, app_idx, responses, threads, thread_counter, stats, refresh_tokens_flag, now, stopFile, session, wk, cleared, picks, steady>>

\* self.responses.clear()
ClearResponses ==
    /\ main.pc = "idle"
    /\ responses # <<>>
    /\ responses' = <<>>
    /\ cleared' = cleared \cup {responses[i].w : i \in DOMAIN responses}
    /\ UNCHANGED <<ext, caller, apps, app_idx, threads, thread_counter, stats, refresh_tokens_flag, now, stopFile, session, wk, main, picks, steady>>

(* ------------------------------ environment ---------------------------- *)

Tick ==
    /\ caller = "solo"
    /\ now < MaxNow
    /\ now' = now + 1
    /\ UNCHANGED <<ext, caller, apps, app_idx, responses, threads, thread_counter, stats, refresh_tokens_flag, stopFile, session, wk, main, cleared, picks, steady>>

\* Somebody creates the emergency stop file.
CreateStopFile ==
    /\ caller \in {"solo", "estop"}
    /\ ~stopFile
    /\ stopFile' = TRUE
    /\ UNCHANGED <<ext, caller, apps, app_idx, responses, threads, thread_counter, stats, refresh_tokens_flag, now, session, wk, main, cleared, picks, steady>>

(* ------------------------- a worker: _get / _post ---------------------- *)

\* The retry cap off by one.
RetriesExceeded_late(r) == r > MaxRetriesOf(caller) + 1

\* if retries > self.max_retries
RetriesExceeded(r) == r > MaxRetriesOf(caller)

\* self.responses.append((url, resp))
SinkAppend(s, w, u, st) == Append(s, [url |-> u, status |-> st, w |-> w, body |-> Body200])

\* Always the first app of the fleet.
NextAppKey_first(d, idx) == d[1].key

\* list(self.apps)[self.app_idx % len(self.apps)]
NextAppKey(d, idx) == d[(idx % Len(d)) + 1].key

\* The cursor stays where it is.
NextIdx_stay(i) == i

\* self.app_idx += 1
NextIdx(i) == i + 1

\* Every call is taken to carry a URL.
MissingUrl_never(self) == FALSE

\* if not args and 'url' not in kwargs
MissingUrl(self) == ~self.has

\* Lines 205-220: the URL is checked and normalized, delay = 1 / len(self.apps).
WStart(w) ==
    /\ wk[w].pc = "start"
    /\ wk' = [wk EXCEPT ![w] =
          IF MissingUrl(wk[w]) THEN EndWith(wk[w], "end_nourl", "")
          ELSE IF Len(apps) = 0 THEN EndWith([wk[w] EXCEPT !.url = Normalize(@)], "end_exc", "ZeroDivisionError")
          ELSE [wk[w] EXCEPT !.pc = "pick", !.url = Normalize(@), !.retries = 0, !.delay = Rat(1, Len(apps)), !.n0 = Len(apps)]]
    /\ UNCHANGED <<ext, caller, apps, app_idx, responses, threads, thread_counter, stats, refresh_tokens_flag, now, stopFile, session, main, cleared, picks, steady>>

\* get_next_app: app_id = list(self.apps)[self.app_idx % len(self.apps)],
\* and the read of self.app_idx += 1.
WPick(w) ==
    /\ wk[w].pc = "pick"
    /\ IF Len(apps) = 0
       THEN /\ wk' = [wk EXCEPT ![w] = EndWith(wk[w], "end_exc", "ZeroDivisionError:get_next_app")]
            /\ picks' = picks
       ELSE /\ wk' = [wk EXCEPT ![w] = [@ EXCEPT !.pc = "idx_w", !.key = NextAppKey(apps, app_idx), !.tmp = app_idx]]
            /\ picks' = [picks EXCEPT ![NextAppKey(apps, app_idx)] = @ + 1]
    /\ UNCHANGED <<ext, caller, apps, app_idx, responses, threads, thread_counter, stats, refresh_tokens_flag, now, stopFile, session, main, cleared, steady>>

\* get_next_app: the write of self.app_idx += 1; app = self.apps[app_id]
WIdxWrite(w) ==
    /\ wk[w].pc = "idx_w"
    /\ app_idx' = NextIdx(wk[w].tmp)
    /\ apps' = Touch(apps, wk[w].key)
    /\ wk' = [wk EXCEPT ![w] = [@ EXCEPT !.pc = "mk_id", !.tmp = 0, !.app = LiveRef(wk[w].key), !.key = ""]]
    /\ steady' = (steady /\ Keys(apps') = Keys(apps))
    /\ UNCHANGED <<ext, caller, responses, threads, thread_counter, stats, refresh_tokens_flag, now, stopFile, session, main, cleared, picks>>

\* resp = requests.get(*args, **kwargs), and the read of the counter the
\* status selects.  Nothing catches what the call raises: the exception
\* ends the thread.
WSend(w) ==
    /\ wk[w].pc = "send"
    /\ \E st \in StatusesOf(caller) :
          wk' = [wk EXCEPT ![w] =
             IF Raises(st) THEN EndWith([wk[w] EXCEPT !.attempts = @ + 1], "end_exc", "ConnectionError")
             ELSE [@ EXCEPT !.pc = IF st = 200 THEN "ok_w" ELSE "nonok_w",
                            !.tmp = IF st = 200 THEN stats.ok ELSE stats.non_ok,
                            !.attempts = @ + 1, !.tok = "", !.app = NoRef, !.aid = "",
                            !.prev = IF Tracks(caller) THEN wk[w].app.key ELSE ""]]
    /\ UNCHANGED <<ext, caller, apps, app_idx, responses, threads, thread_counter, stats, refresh_tokens_flag, now, stopFile, session, main, cleared, picks, steady>>

\* The delay stays as it is.
NextDelay_same(d, f) == d

\* delay *= self.retry_delay_factor
NextDelay(d, f) == RatMul(d, f)

\* self.number_of_non_ok_requests += 1 (the write); time.sleep(delay);
\* delay *= self.retry_delay_factor; retries += 1;
\* the retry cap at the top of the loop, else the read of
\* self.number_of_retries += 1.
WNonOkWrite(w) ==
    /\ wk[w].pc = "nonok_w"
    /\ stats' = [stats EXCEPT !.non_ok = wk[w].tmp + 1]
    /\ wk' = [wk EXCEPT ![w] =
          IF RetriesExceeded(wk[w].retries + 1) THEN EndWith(wk[w], "end_loss", "")
          ELSE [wk[w] EXCEPT !.pc = "retr_w", !.retries = @ + 1, !.tmp = stats.retries, !.delay = NextDelay(@, conf.retry_delay_factor)]]
    /\ UNCHANGED <<ext, caller, apps, app_idx, responses, threads, thread_counter, refresh_tokens_flag, now, stopFile, session, main, cleared, picks, steady>>

\* self.number_of_retries += 1: the write
WRetriesWrite(w) ==
    /\ wk[w].pc = "retr_w"
    /\ stats' = [stats EXCEPT !.retries = wk[w].tmp + 1]
    /\ wk' = [wk EXCEPT ![w] = [@ EXCEPT !.pc = "pick", !.tmp = 0]]
    /\ UNCHANGED <<ext, caller, apps, app_idx, responses, threads, thread_counter, refresh_tokens_flag, now, stopFile, session, main, cleared, picks, steady>>

\* self.number_of_ok_requests += 1 (the write), and the read of
\* self.response_bytes += len(resp.content).
WOkWrite(w) ==
    /\ wk[w].pc = "ok_w"
    /\ stats' = [stats EXCEPT !.ok = wk[w].tmp + 1]
    /\ wk' = [wk EXCEPT ![w] = [@ EXCEPT !.pc = "by_w", !.tmp = stats.bytes]]
    /\ UNCHANGED <<ext, caller, apps, app_idx, responses, threads, thread_counter, refresh_tokens_flag, now, stopFile, session, main, cleared, picks, steady>>

\* self.response_bytes += len(resp.content): the write
WBytesWrite(w) ==
    /\ wk[w].pc = "by_w"
    /\ stats' = [stats EXCEPT !.bytes = wk[w].tmp + BodyLen]
    /\ wk' = [wk EXCEPT ![w] = [@ EXCEPT !.pc = "append", !.tmp = 0]]
    /\ UNCHANGED <<ext, caller, apps, app_idx, responses, threads, thread_counter, refresh_tokens_flag, now, stopFile, session, main, cleared, picks, steady>>

\* self.responses.append((url, resp)); return
WAppend(w) ==
    /\ wk[w].pc = "append"
    /\ responses' = SinkAppend(responses, w, wk[w].url, 200)
    /\ wk' = [wk EXCEPT ![w] = EndWith(wk[w], "end_ok", "")]
    /\ UNCHANGED <<ext, caller, apps, app_idx, threads, thread_counter, stats, refresh_tokens_flag, now, stopFile, session, main, cleared, picks, steady>>

(* ------------- make_request_kwargs_from_app (FtApiHydra.py) ------------ *)

\* if not expires_in: expires_in = time.time() + 10000
EffectiveExpiry(e, t) == IF e = NoneExp \/ e = 0 THEN t + FallbackTTL ELSE e

\* No token is ever found expired.
Expired_never(e, t) == FALSE

\* if expires_in <= time.time()
Expired(e, t) == e <= t

\* if app_id and self.refresh_tokens_flag
MustWait(a, flag) == a # "" /\ flag

\* app_id = app.get('id', ''); if app_id and self.refresh_tokens_flag
WMkId(w) ==
    /\ wk[w].pc = "mk_id"
    /\ LET r == RefRec(apps, wk[w].app)
           a == IF r.id THEN r.key ELSE ""
       IN wk' = [wk EXCEPT ![w] = [@ EXCEPT !.aid = a, !.pc = IF MustWait(a, refresh_tokens_flag) THEN "wait" ELSE "rd_app"]]
    /\ UNCHANGED <<ext, caller, apps, app_idx, responses, threads, thread_counter, stats, refresh_tokens_flag, now, stopFile, session, main, cleared, picks, steady>>

\* while self.refresh_tokens_flag: time.sleep(0.5); then app = self.apps[app_id]
WWait(w) ==
    /\ wk[w].pc = "wait"
    /\ ~refresh_tokens_flag
    /\ apps' = Touch(apps, wk[w].aid)
    /\ wk' = [wk EXCEPT ![w] = [@ EXCEPT !.pc = "rd_app", !.app = LiveRef(wk[w].aid)]]
    /\ steady' = (steady /\ Keys(apps') = Keys(apps))
    /\ UNCHANGED <<ext, caller, app_idx, responses, threads, thread_counter, stats, refresh_tokens_flag, now, stopFile, session, main, cleared, picks>>

\* token = app.get('access_token', ''); expires_in = app.get('token_expires_in', None)
WReadApp(w) ==
    /\ wk[w].pc = "rd_app"
    /\ wk' = [wk EXCEPT ![w] = [@ EXCEPT !.pc = "chk", !.tok = RefRec(apps, wk[w].app).tok, !.exp = RefRec(apps, wk[w].app).exp]]
    /\ UNCHANGED <<ext, caller, apps, app_idx, responses, threads, thread_counter, stats, refresh_tokens_flag, now, stopFile, session, main, cleared, picks, steady>>

\* The stop file is not looked at.
StopFound_never(stop) == FALSE

\* if os.path.isfile(EMERGENCY_STOP_FILE)
StopFound(stop) == stop

\* kwargs['headers'] = {'Authorization': f'Bearer {token}'}
ShapeHeaders(h) == {"Authorization"}

\* Lines 99-120: no id: the token is used as read; the emergency stop file
\* ends the thread; an expired token starts refresh_tokens; else the header
\* is built (a placeholder stands in for an empty token).
WCheck(w) ==
    /\ wk[w].pc = "chk"
    /\ wk' = [wk EXCEPT ![w] =
          IF wk[w].aid = "" THEN [wk[w] EXCEPT !.pc = "send", !.exp = NoneExp, !.hdrs = ShapeHeaders(@)]
          ELSE IF StopFound(stopFile) THEN EndWith(wk[w], "end_exit", "SystemExit")
          ELSE IF Expired(EffectiveExpiry(wk[w].exp, now), now) THEN [wk[w] EXCEPT !.pc = "rf_set", !.exp = NoneExp, !.tok = "", !.app = NoRef]
          ELSE [wk[w] EXCEPT !.pc = "send", !.exp = NoneExp, !.tok = IF @ = "" THEN "MISSING_TOKEN" ELSE @, !.hdrs = ShapeHeaders(@)]]
    /\ UNCHANGED <<ext, caller, apps, app_idx, responses, threads, thread_counter, stats, refresh_tokens_flag, now, stopFile, session, main, cleared, picks, steady>>

(* ----------------------- refresh_tokens (FtApiHydra.py) ---------------- *)

\* if not uid or not secret
NoCredentials(c) == ~c.uid \/ ~c.secret

\* resp.ok of requests: the status is below 400.
RespOk(st) == st < 400

\* self.refresh_tokens_flag = True; copy.deepcopy(self.apps).items()
WRefreshBegin(w) ==
    /\ wk[w].pc = "rf_set"
    /\ refresh_tokens_flag' = TRUE
    /\ wk' = [wk EXCEPT ![w] = [@ EXCEPT !.pc = "rf_loop", !.snap = apps, !.i = 1]]
    /\ UNCHANGED <<ext, caller, apps, app_idx, responses, threads, thread_counter, stats, now, stopFile, session, main, cleared, picks, steady>>

\* One turn of the for loop up to its shared access: an app without
\* credentials is deleted from the fleet (KeyError if it is gone); the
\* others go to get_token.
WRefreshLoop(w) ==
    /\ wk[w].pc = "rf_loop"
    /\ wk[w].i <= Len(wk[w].snap)
    /\ LET c == wk[w].snap[wk[w].i]
       IN IF NoCredentials(c)
          THEN IF Has(apps, c.key)
               THEN /\ apps' = Del(apps, c.key)
                    /\ wk' = [Detached(wk, apps, {c.key}) EXCEPT ![w] = [@ EXCEPT !.i = @ + 1]]
               ELSE /\ apps' = apps
                    /\ wk' = [wk EXCEPT ![w] = EndWith(wk[w], "end_exc", "KeyError:del")]
          ELSE /\ apps' = apps
               /\ wk' = [wk EXCEPT ![w] = [@ EXCEPT !.pc = "rf_post"]]
    /\ steady' = (steady /\ Keys(apps') = Keys(apps))
    /\ UNCHANGED <<ext, caller, app_idx, responses, threads, thread_counter, stats, refresh_tokens_flag, now, stopFile, session, main, cleared, picks>>

\* self.refresh_tokens_flag = False
WRefreshClear(w) ==
    /\ wk[w].pc = "rf_loop"
    /\ wk[w].i > Len(wk[w].snap)
    /\ refresh_tokens_flag' = FALSE
    /\ wk' = [wk EXCEPT ![w] = [@ EXCEPT !.pc = "rf_ret", !.snap = <<>>, !.i = 0]]
    /\ UNCHANGED <<ext, caller, apps, app_idx, responses, threads, thread_counter, stats, now, stopFile, session, main, cleared, picks, steady>>

\* get_token -> requests_post: the POST to the token endpoint is answered,
\* and the wrapper reads the counter it is about to update.
WTokenPost(w) ==
    /\ wk[w].pc = "rf_post"
    /\ \E st \in TokenStatuses :
          wk' = [wk EXCEPT ![w] = [@ EXCEPT !.rst = st,
                                             !.pc = IF RespOk(st) THEN "rf_ok_w" ELSE "rf_nonok_w",
                                             !.tmp = IF RespOk(st) THEN stats.ok ELSE stats.non_ok]]
    /\ UNCHANGED <<ext, caller, apps, app_idx, responses, threads, thread_counter, stats, refresh_tokens_flag, now, stopFile, session, main, cleared, picks, steady>>

\* requests_post: self.number_of_ok_requests += 1 (the write), and the read
\* of self.response_bytes += len(resp.content).
WTokOkWrite(w) ==
    /\ wk[w].pc = "rf_ok_w"
    /\ stats' = [stats EXCEPT !.ok = wk[w].tmp + 1]
    /\ wk' = [wk EXCEPT ![w] = [@ EXCEPT !.pc = "rf_by_w", !.tmp = stats.bytes]]
    /\ UNCHANGED <<ext, caller, apps, app_idx, responses, threads, thread_counter, refresh_tokens_flag, now, stopFile, session, main, cleared, picks, steady>>

\* requests_post: self.response_bytes += len(resp.content) (the write)
WTokBytesWrite(w) ==
    /\ wk[w].pc = "rf_by_w"
    /\ stats' = [stats EXCEPT !.bytes = wk[w].tmp + BodyLen]
    /\ wk' = [wk EXCEPT ![w] = [@ EXCEPT !.pc = "rf_store", !.tmp = 0]]
    /\ UNCHANGED <<ext, caller, apps, app_idx, responses, threads, thread_counter, refresh_tokens_flag, now, stopFile, session, main, cleared, picks, steady>>

\* requests_post: self.number_of_non_ok_requests += 1 (the write)
WTokNonOkWrite(w) ==
    /\ wk[w].pc = "rf_nonok_w"
    /\ stats' = [stats EXCEPT !.non_ok = wk[w].tmp + 1]
    /\ wk' = [wk EXCEPT ![w] = [@ EXCEPT !.pc = "rf_store", !.tmp = 0]]
    /\ UNCHANGED <<ext, caller, apps, app_idx, responses, threads, thread_counter, refresh_tokens_flag, now, stopFile, session, main, cleared, picks, steady>>

\* get_token returns; refresh_tokens reads token_resp['expires_in'] (a key
\* the non-200 answer of get_token does not hold) and stores token and
\* expiry in self.apps[app_id].
WRefreshStore(w) ==
    /\ wk[w].pc = "rf_store"
    /\ IF wk[w].rst # 200
       THEN /\ apps' = apps
            /\ wk' = [wk EXCEPT ![w] = EndWith(wk[w], "end_exc", "KeyError:expires_in")]
       ELSE /\ apps' = StoreToken(apps, wk[w].snap[wk[w].i].key, "t1", now + TokenTTL)
            /\ wk' = [wk EXCEPT ![w] = [@ EXCEPT !.pc = "rf_loop", !.i = @ + 1, !.rst = 0]]
    /\ steady' = (steady /\ Keys(apps') = Keys(apps))
    /\ UNCHANGED <<ext, caller, app_idx, responses, threads, thread_counter, stats, refresh_tokens_flag, now, stopFile, session, main, cleared, picks>>

\* return self.make_request_kwargs_from_app(self.apps[app_id], **kwargs)
WRefreshRet(w) ==
    /\ wk[w].pc = "rf_ret"
    /\ apps' = Touch(apps, wk[w].aid)
    /\ wk' = [wk EXCEPT ![w] = [@ EXCEPT !.pc = "mk_id", !.app = LiveRef(wk[w].aid), !.aid = ""]]
    /\ steady' = (steady /\ Keys(apps') = Keys(apps))
    /\ UNCHANGED <<ext, caller, app_idx, responses, threads, thread_counter, stats, refresh_tokens_flag, now, stopFile, session, main, cleared, picks>>

(* ---------- the web console session and delete_app (FtApiHydra.py) ----- *)

\* requests_get / requests_post: the statistics of one answered request.
\* The caller's thread updates them in one step here; the read and the
\* write of `+=` are separate steps in the workers, where two updates meet.
Counted(s, st) == IF RespOk(st) THEN [s EXCEPT !.ok = @ + 1, !.bytes = @ + BodyLen] ELSE [s EXCEPT !.non_ok = @ + 1]

\* ensure_session: if the session cookie is there, nothing is done.
AfterEnsure(has_cookie) == IF has_cookie THEN "da_page" ELSE "cs_signin"

\* delete_app(app_id), called by the caller: ensure_session comes first.
DeleteApp(k) ==
    /\ caller \in {"admin", "shrink"}
    /\ main.pc = "idle"
    /\ main.req < MaxRequests
    /\ main' = [main EXCEPT !.pc = AfterEnsure(session), !.op = "delete_app", !.k = k]
    /\ UNCHANGED <<ext, caller, apps, app_idx, responses, threads, thread_counter, stats, refresh_tokens_flag, now, stopFile, session, wk, cleared, picks, steady>>

\* create_intra_session: the sign-in page is fetched and its form parsed.
SignInPage ==
    /\ main.pc = "cs_signin"
    /\ main.req < MaxRequests
    /\ \E st \in PageStatuses, form \in BOOLEAN :
          /\ stats' = Counted(stats, st)
          /\ main' = [main EXCEPT !.req = @ + 1, !.pc = IF st = 200 /\ form THEN "cs_post" ELSE "da_page"]
    /\ UNCHANGED <<ext, caller, apps, app_idx, responses, threads, thread_counter, refresh_tokens_flag, now, stopFile, session, wk, cleared, picks, steady>>

\* create_intra_session: the credentials are posted.
PostCredentials ==
    /\ main.pc = "cs_post"
    /\ main.req < MaxRequests
    /\ \E st \in PageStatuses :
          /\ stats' = Counted(stats, st)
          /\ main' = [main EXCEPT !.req = @ + 1, !.pc = IF st = 200 THEN "cs_callback" ELSE "da_page"]
    /\ UNCHANGED <<ext, caller, apps, app_idx, responses, threads, thread_counter, refresh_tokens_flag, now, stopFile, session, wk, cleared, picks, steady>>

\* create_intra_session: the callback URL is fetched; the session holds its
\* cookie when the login went through.
Callback ==
    /\ main.pc = "cs_callback"
    /\ main.req < MaxRequests
    /\ \E st \in PageStatuses, logged_in \in BOOLEAN :
          /\ stats' = Counted(stats, st)
          /\ session' = (st = 200 /\ logged_in)
          /\ main' = [main EXCEPT !.req = @ + 1, !.pc = "da_page"]
    /\ UNCHANGED <<ext, caller, apps, app_idx, responses, threads, thread_counter, refresh_tokens_flag, now, stopFile, wk, cleared, picks, steady>>

\* delete_app: the application page is fetched; on 429 delete_app calls
\* itself again and returns; otherwise the csrf-token is looked up.
DeletePage ==
    /\ main.pc = "da_page"
    /\ main.req < MaxRequests
    /\ \E st \in PageStatuses, csrf \in BOOLEAN :
          /\ stats' = Counted(stats, st)
          /\ main' = [main EXCEPT !.req = @ + 1,
                                  !.pc = IF st = 429 THEN AfterEnsure(session)
                                         ELSE IF st = 200 /\ csrf THEN "da_post" ELSE "idle",
                                  !.op = IF st = 429 \/ (st = 200 /\ csrf) THEN @ ELSE "",
                                  !.k = IF st = 429 \/ (st = 200 /\ csrf) THEN @ ELSE ""]
    /\ UNCHANGED <<ext, caller, apps, app_idx, responses, threads, thread_counter, refresh_tokens_flag, now, stopFile, session, wk, cleared, picks, steady>>

\* Every answer to the delete request is taken for a success.
DeleteAccepted_always(st) == TRUE

\* if resp.status_code != 200: log the error; else: the app is removed
DeleteAccepted(st) == st = 200

\* delete_app: the delete is posted; on 200 the app leaves the fleet.
DeletePost ==
    /\ main.pc = "da_post"
    /\ main.req < MaxRequests
    /\ \E st \in PageStatuses :
          /\ stats' = Counted(stats, st)
          /\ apps' = IF DeleteAccepted(st) THEN Del(apps, main.k) ELSE apps
          /\ wk' = IF DeleteAccepted(st) /\ Has(apps, main.k) THEN Detached(wk, apps, {main.k}) ELSE wk
          /\ main' = [main EXCEPT !.req = @ + 1, !.pc = "idle", !.op = "", !.k = ""]
    /\ steady' = (steady /\ Keys(apps') = Keys(apps))
    /\ UNCHANGED <<ext, caller, app_idx, responses, threads, thread_counter, refresh_tokens_flag, now, stopFile, session, cleared, picks>>

(* ------------------------------ the system ----------------------------- *)

WorkerStep(w) ==
    \/ WStart(w) \/ WPick(w) \/ WIdxWrite(w)
    \/ WMkId(w) \/ WWait(w) \/ WReadApp(w) \/ WCheck(w)
    \/ WRefreshBegin(w) \/ WRefreshLoop(w) \/ WRefreshClear(w)
    \/ WTokenPost(w) \/ WTokOkWrite(w) \/ WTokBytesWrite(w)
    \/ WTokNonOkWrite(w) \/ WRefreshStore(w) \/ WRefreshRet(w)
    \/ WSend(w) \/ WNonOkWrite(w) \/ WRetriesWrite(w)
    \/ WOkWrite(w) \/ WBytesWrite(w) \/ WAppend(w)

\* The steps of a worker whose app has a valid token.
WorkerStepValid(w) ==
    \/ WStart(w) \/ WPick(w) \/ WIdxWrite(w)
    \/ WMkId(w) \/ WReadApp(w) \/ WCheck(w)
    \/ WSend(w) \/ WNonOkWrite(w) \/ WRetriesWrite(w)
    \/ WOkWrite(w) \/ WBytesWrite(w) \/ WAppend(w)

\* The steps of a worker whose token is fresh and whose request is answered
\* 200 at once.
WorkerStepOk(w) ==
    \/ WStart(w) \/ WPick(w) \/ WIdxWrite(w)
    \/ WMkId(w) \/ WReadApp(w) \/ WCheck(w)
    \/ WSend(w) \/ WOkWrite(w) \/ WBytesWrite(w) \/ WAppend(w)

MainStep ==
    \/ \E a \in Args : Get(a)
    \/ \E a \in Args : Post(a)
    \/ Join \/ GetResponses \/ JoinDone \/ GotResponses \/ ClearResponses
    \/ \E k \in AppIds : DeleteApp(k)
    \/ SignInPage \/ PostCredentials \/ Callback \/ DeletePage \/ DeletePost

Next ==
    \/ MainStep
    \/ \E w \in Workers : WorkerStep(w)
    \/ Tick
    \/ CreateStopFile

Spec == Init /\ [][Next]_vars

\* A fair scheduler: every thread that can take a step eventually takes one.
\* The caller submits at most two requests and then joins.
FairInit ==
    /\ caller = "duo"
    /\ apps \in {<<FreshApp("a")>>, <<ExpiredApp("a")>>}
    /\ InitState
    /\ InitExt

FairNext ==
    \/ \E a \in Args : Get(a)
    \/ Join
    \/ JoinDone
    \/ \E w \in Workers : WorkerStep(w)

FairSpec == FairInit /\ [][FairNext]_vars /\ WF_vars(JoinDone) /\ \A w \in Workers : WF_vars(WorkerStep(w))

(* ------------- serialization: credentials and responses --------------- *)

\* The app ids in the order in which Python compares strings.
KeyOrder == <<"a", "b">>

\* The keys are written as the dict holds them.
SortKeys_unsorted(d) == d

\* json.dump(..., sort_keys=True): the items in ascending order of the keys.
SortKeys(d) == [i \in DOMAIN SelectSeq(KeyOrder, LAMBDA k : Has(d, k)) |-> Lookup(d, SelectSeq(KeyOrder, LAMBDA k : Has(d, k))[i])]

\* serialize(apps_file): the file holds the fleet, keys sorted; if it cannot
\* be opened for writing, the fleet is dumped to the log and the file stays.
Serialize(dk, d) == IF dk.apps_writable THEN [dk EXCEPT !.apps_file = [kind |-> "json", val |-> SortKeys(d)]] ELSE dk

\* A file that cannot be loaded empties the fleet.
Deserialize_reset(d, f) == IF f.kind = "json" THEN f.val ELSE <<>>

\* deserialize(apps_file): self.apps = defaultdict(dict, json.load(...)); a
\* JSONDecodeError and an IOError are logged, and self.apps is not assigned.
Deserialize(d, f) == IF f.kind = "json" THEN f.val ELSE d

\* The two characters of a byte in hexadecimal, as code points.
HexDigit(n) == IF n < 10 THEN 48 + n ELSE 87 + n

\* bytes.decode('utf-8', errors='backslashreplace'): an ASCII byte is its
\* character, a two-byte sequence is one character, and a byte that starts
\* no valid sequence becomes the four characters \xNN.
RECURSIVE Utf8Decode(_)
Utf8Decode(b) ==
    IF b = <<>> THEN <<>>
    ELSE IF b[1] < 128 THEN <<b[1]>> \o Utf8Decode(Tail(b))
    ELSE IF b[1] \in 194..223 /\ Len(b) > 1 /\ b[2] \in 128..191 THEN <<(b[1] - 192) * 64 + (b[2] - 128)>> \o Utf8Decode(Tail(Tail(b)))
    ELSE <<92, 120, HexDigit(b[1] \div 16), HexDigit(b[1] % 16)>> \o Utf8Decode(Tail(b))

\* str.encode('utf-8') for code points below 2048: what a reader of the file
\* gets back as bytes.
RECURSIVE Utf8Encode(_)
Utf8Encode(t) ==
    IF t = <<>> THEN <<>>
    ELSE IF t[1] < 128 THEN <<t[1]>> \o Utf8Encode(Tail(t))
    ELSE <<192 + (t[1] \div 64), 128 + (t[1] % 64)>> \o Utf8Encode(Tail(t))

\* The bytes are valid UTF-8.
RECURSIVE ValidUtf8(_)
ValidUtf8(b) ==
    IF b = <<>> THEN TRUE
    ELSE IF b[1] < 128 THEN ValidUtf8(Tail(b))
    ELSE IF b[1] \in 194..223 /\ Len(b) > 1 /\ b[2] \in 128..191 THEN ValidUtf8(Tail(Tail(b)))
    ELSE FALSE

\* serializable_responses: (resp[0], resp[1].content.decode(...)) per record.
Serializable(sink) == [i \in DOMAIN sink |-> <<sink[i].url, Utf8Decode(sink[i].body)>>]

\* open(file_name, 'w'): a file of that name is replaced.
WriteFile(fs, f) == {g \in fs : ~(g.dir = f.dir /\ g.part = f.part /\ g.ts = f.ts)} \cup {f}

\* serialize_responses(template): the file named by the template and
\* int(time.time()) holds the list of [url, text]; if it cannot be opened,
\* the fallback file on tmpfs is written with json.dump(self.apps, ...); if
\* that cannot be opened either, nothing is written.  p is the part the
\* template names (0: a template without a part).  The field `of` of a file
\* is history: the workers whose records the file holds.
SerializeResponses(dk, sink, d, t, p) ==
    IF dk.cwd_writable THEN [dk EXCEPT !.files = WriteFile(@, [dir |-> "cwd", part |-> p, ts |-> t, kind |-> "responses", val |-> Serializable(sink), of |-> {sink[i].w : i \in DOMAIN sink}])]
    ELSE IF dk.tmp_writable THEN [dk EXCEPT !.files = WriteFile(@, [dir |-> "tmp", part |-> 0, ts |-> t, kind |-> "apps", val |-> d, of |-> {}])]
    ELSE dk

\* The responses are written whatever the flag says.
SerializesAtShutdown_always(flag) == TRUE

\* if self.serialize_responses_flag
SerializesAtShutdown(flag) == flag

\* The caller calls serialize(apps_file).
CallSerialize ==
    /\ caller = "store"
    /\ main.pc = "idle"
    /\ disk' = Serialize(disk, apps)
    /\ main' = [main EXCEPT !.last = <<"serialize">>]
    /\ UNCHANGED <<held, conf, serialize_responses_flag, response_serialization_part>>
    /\ UNCHANGED <<caller, apps, app_idx, responses, threads, thread_counter, stats, refresh_tokens_flag, now, stopFile, session, wk, cleared, picks, steady>>

\* The caller calls deserialize(apps_file).
CallDeserialize ==
    /\ caller = "store"
    /\ main.pc = "idle"
    /\ apps' = Deserialize(apps, disk.apps_file)
    /\ main' = [main EXCEPT !.last = <<"deserialize">>]
    /\ steady' = (steady /\ Keys(apps') = Keys(apps))
    /\ UNCHANGED <<ext, caller, app_idx, responses, threads, thread_counter, stats, refresh_tokens_flag, now, stopFile, session, wk, cleared, picks>>

\* The caller calls serialize_responses(template).
CallSerializeResponses ==
    /\ caller = "store"
    /\ main.pc = "idle"
    /\ disk' = SerializeResponses(disk, responses, apps, now, 0)
    /\ main' = [main EXCEPT !.last = <<"serialize_responses">>]
    /\ UNCHANGED <<held, conf, serialize_responses_flag, response_serialization_part>>
    /\ UNCHANGED <<caller, apps, app_idx, responses, threads, thread_counter, stats, refresh_tokens_flag, now, stopFile, session, wk, cleared, picks, steady>>

\* finish(): self.serialize_responses_flag = False
Finish ==
    /\ caller = "store"
    /\ main.pc = "idle"
    /\ serialize_responses_flag' = FALSE
    /\ main' = [main EXCEPT !.last = <<"finish">>, !.finish_called = TRUE]
    /\ UNCHANGED <<held, conf, disk, response_serialization_part>>
    /\ UNCHANGED <<caller, apps, app_idx, responses, threads, thread_counter, stats, refresh_tokens_flag, now, stopFile, session, wk, cleared, picks, steady>>

\* __del__: serialize(apps_file), serialize_responses(template) if the flag
\* is set, and the statistics are logged.
Destructor ==
    /\ caller = "store"
    /\ main.pc = "idle"
    /\ disk' = IF SerializesAtShutdown(serialize_responses_flag) THEN SerializeResponses(Serialize(disk, apps), responses, apps, now, 0) ELSE Serialize(disk, apps)
    /\ main' = [main EXCEPT !.pc = "gone", !.last = IF SerializesAtShutdown(serialize_responses_flag) THEN <<"serialize", "serialize_responses">> ELSE <<"serialize">>]
    /\ UNCHANGED <<held, conf, serialize_responses_flag, response_serialization_part>>
    /\ UNCHANGED <<caller, apps, app_idx, responses, threads, thread_counter, stats, refresh_tokens_flag, now, stopFile, session, wk, cleared, picks, steady>>

\* Response bodies: the JSON number 1, the JSON string "e-acute" (a
\* two-byte character), and a byte that is not UTF-8.
SampleBodies == {<<49>>, <<34, 195, 169, 34>>, <<255>>}

\* The sinks workers can leave: up to two records, appended by the workers
\* 1, 2 in this order.
SampleSinks == {<<>>} \cup {<<[url |-> api_base \o PathUrl, status |-> 200, w |-> 1, body |-> b]>> : b \in SampleBodies} \cup {<<[url |-> api_base \o PathUrl, status |-> 200, w |-> 1, body |-> b]>> \o <<[url |-> <<"h", "p">>, status |-> 200, w |-> 2, body |-> c]>> : b \in SampleBodies, c \in SampleBodies}

\* The fleets a dict can hold: update() and create_app insert the ids in the
\* order the console gives them, which need not be the order of the strings.
SampleFleets == {<<>>, <<FreshApp("a")>>, <<BareApp("b")>>, <<FreshApp("a"), BareApp("b")>>, <<BareApp("b"), FreshApp("a")>>, <<FreshApp("b"), ExpiredApp("a")>>}

\* The credentials file before the run: absent, not JSON, or the dump of a fleet.
SampleAppsFiles == {NoFile, [kind |-> "malformed", val |-> <<>>], [kind |-> "json", val |-> <<FreshApp("a")>>], [kind |-> "json", val |-> <<ExpiredApp("a"), FreshApp("b")>>]}

\* A caller that only loads and saves: the fleet and the sink are what
\* earlier operations left, the directories are writable or not.
StoreInit ==
    /\ caller = "store"
    /\ apps \in SampleFleets
    /\ InitFields
    /\ session = FALSE
    /\ responses \in SampleSinks
    /\ held = NoList
    /\ conf = DefaultConf
    /\ \E f \in SampleAppsFiles, aw \in BOOLEAN, cw \in BOOLEAN, tw \in BOOLEAN : disk = [apps_file |-> f, apps_writable |-> aw, cwd_writable |-> cw, tmp_writable |-> tw, files |-> {}]
    /\ serialize_responses_flag = TRUE
    /\ response_serialization_part = 1

StoreNext == CallSerialize \/ CallDeserialize \/ CallSerializeResponses \/ Finish \/ Destructor

StoreSpec == StoreInit /\ [][StoreNext]_vars

(* -------------- the admission hook of get and post -------------------- *)

\* The sink is written to a part file when it holds more records than this
\* (10,000 in the program).
SinkThreshold == 1

\* The worker threads that were started and have not ended.
ActiveWorkers == Cardinality({w \in Workers : wk[w].pc # "unborn" /\ ~Ended(w)})

\* Any number of workers is admitted.
OverCap_never(active, n) == FALSE

\* active_workers > 2 * N
OverCap(active, n) == active > 2 * n

\* The sink has grown past the threshold.
SinkFull(sink) == Len(sink) > SinkThreshold

\* get/post of a hooked caller: ensure_ready comes first.
EnterGet ==
    /\ Hooked(caller)
    /\ main.pc = "idle"
    /\ thread_counter < MaxThreads(caller)
    /\ main' = [main EXCEPT !.pc = "er_stop"]
    /\ UNCHANGED <<ext, caller, apps, app_idx, responses, threads, thread_counter, stats, refresh_tokens_flag, now, stopFile, session, wk, cleared, picks, steady>>

\* ensure_ready, step 1: if the emergency stop file exists, join() and exit
\* the process with code 42.
ErStop ==
    /\ main.pc = "er_stop"
    /\ main' = IF StopFound(stopFile) THEN [main EXCEPT !.pc = "join", !.op = "exit"] ELSE [main EXCEPT !.pc = "er_flag"]
    /\ UNCHANGED <<ext, caller, apps, app_idx, responses, threads, thread_counter, stats, refresh_tokens_flag, now, stopFile, session, wk, cleared, picks, steady>>

\* ensure_ready, step 2: while a refresh is in progress, sleep 0.5 s and poll.
ErFlag ==
    /\ main.pc = "er_flag"
    /\ ~refresh_tokens_flag
    /\ main' = [main EXCEPT !.pc = "er_cap"]
    /\ UNCHANGED <<ext, caller, apps, app_idx, responses, threads, thread_counter, stats, refresh_tokens_flag, now, stopFile, session, wk, cleared, picks, steady>>

\* ensure_ready, step 3: if active_workers > 2 * N, warn and block.
ErCap ==
    /\ main.pc = "er_cap"
    /\ main' = IF OverCap(ActiveWorkers, Len(apps)) THEN [main EXCEPT !.pc = "er_block"] ELSE [main EXCEPT !.pc = "er_sink", !.n_adm = Len(apps)]
    /\ UNCHANGED <<ext, caller, apps, app_idx, responses, threads, thread_counter, stats, refresh_tokens_flag, now, stopFile, session, wk, cleared, picks, steady>>

\* ... until active_workers < N.
ErUnblock ==
    /\ main.pc = "er_block"
    /\ ActiveWorkers < Len(apps)
    /\ main' = [main EXCEPT !.pc = "er_sink", !.n_adm = Len(apps)]
    /\ UNCHANGED <<ext, caller, apps, app_idx, responses, threads, thread_counter, stats, refresh_tokens_flag, now, stopFile, session, wk, cleared, picks, steady>>

\* ensure_ready, step 4: if the sink holds more than the threshold, join()
\* comes before the checkpoint; else the request is submitted.
ErSink ==
    /\ main.pc = "er_sink"
    /\ main' = IF SinkFull(responses) THEN [main EXCEPT !.pc = "join", !.op = "checkpoint"] ELSE [main EXCEPT !.pc = "ready"]
    /\ UNCHANGED <<ext, caller, apps, app_idx, responses, threads, thread_counter, stats, refresh_tokens_flag, now, stopFile, session, wk, cleared, picks, steady>>

\* The checkpoint: serialize_responses with the current part in the
\* template, the part is incremented, clear_responses().
Checkpoint ==
    /\ main.pc = "ckpt"
    /\ disk' = SerializeResponses(disk, responses, apps, now, response_serialization_part)
    /\ response_serialization_part' = response_serialization_part + 1
    /\ responses' = <<>>
    /\ cleared' = cleared \cup {responses[i].w : i \in DOMAIN responses}
    /\ main' = [main EXCEPT !.pc = "ready"]
    /\ UNCHANGED <<held, conf, serialize_responses_flag>>
    /\ UNCHANGED <<caller, apps, app_idx, threads, thread_counter, stats, refresh_tokens_flag, now, stopFile, session, wk, picks, steady>>

\* An app record without an id that holds a token: a credentials file
\* written by hand, refreshed since.
IdlessApp(k) == [key |-> k, id |-> FALSE, uid |-> TRUE, secret |-> TRUE, tok |-> "t0", exp |-> 2]

\* The hooked callers.  "burst": four requests, all answered 200, on one app,
\* the working directory writable or not.  "shrink": two requests, and the
\* caller deletes apps through a console session it already has.  "estop":
\* two requests while somebody creates the stop file.
AdmitInit ==
    /\ InitFields
    /\ responses = <<>>
    /\ held = NoList
    /\ conf = DefaultConf
    /\ serialize_responses_flag = TRUE
    /\ response_serialization_part = 1
    /\ \/ caller = "burst" /\ apps = <<FreshApp("a")>> /\ session = FALSE /\ disk \in {DiskOf(apps), [DiskOf(apps) EXCEPT !.cwd_writable = FALSE]}
       \/ caller = "shrink" /\ apps = <<FreshApp("a")>> /\ session = TRUE /\ disk = DiskOf(apps)
       \/ caller = "estop" /\ apps \in {<<FreshApp("a")>>, <<IdlessApp("a")>>} /\ session = FALSE /\ disk = DiskOf(apps)

AdmitNext ==
    \/ EnterGet \/ ErStop \/ ErFlag \/ ErCap \/ ErUnblock \/ ErSink \/ Checkpoint
    \/ \E a \in Args : Get(a)
    \/ JoinDone
    \/ \E k \in AppIds : DeleteApp(k)
    \/ DeletePage \/ DeletePost
    \/ CreateStopFile
    \/ \E w \in Workers : WorkerStepOk(w)

AdmitSpec == AdmitInit /\ [][AdmitNext]_vars

(* ------------------- pacing and backoff: the pacer ---------------------- *)

\* One request on a fleet of one or two apps with valid tokens, with the
\* options of the constructor's defaults or of main().
PacerInit ==
    /\ caller = "pacer"
    /\ apps \in {<<FreshApp("a")>>, <<FreshApp("a"), FreshApp("b")>>}
    /\ InitState
    /\ held = NoList
    /\ conf \in Confs
    /\ disk = DiskOf(apps)
    /\ serialize_responses_flag = TRUE
    /\ response_serialization_part = 1

PacerNext ==
    \/ \E a \in Args : Get(a)
    \/ \E a \in Args : Post(a)
    \/ Join \/ JoinDone
    \/ \E w \in Workers : WorkerStepValid(w)

PacerSpec == PacerInit /\ [][PacerNext]_vars

(* --------------- the shaper: headers of the request -------------------- *)

\* One request for a path, with or without headers of the caller, on a
\* fleet of one or two apps with valid tokens.
ShaperInit ==
    /\ caller = "shaper"
    /\ apps \in {<<FreshApp("a")>>, <<FreshApp("a"), FreshApp("b")>>}
    /\ InitState
    /\ InitExt

ShaperNext ==
    \/ \E a \in HeaderArgs : Get(a)
    \/ \E a \in HeaderArgs : Post(a)
    \/ Join \/ JoinDone
    \/ \E w \in Workers : WorkerStepValid(w)

ShaperSpec == ShaperInit /\ [][ShaperNext]_vars

(* --------------- the patient caller: many retries ---------------------- *)

\* One request for a path on a fleet of one or two apps with valid tokens,
\* by an instance constructed with max_retries = PatientRetries; the
\* upstream answers 200 or 404, or the connection fails.
PatientInit ==
    /\ caller = "patient"
    /\ apps \in {<<FreshApp("a")>>, <<FreshApp("a"), FreshApp("b")>>}
    /\ InitState
    /\ InitExt

PatientNext ==
    \/ \E a \in ArgsOf(caller) : Get(a)
    \/ \E a \in ArgsOf(caller) : Post(a)
    \/ Join \/ JoinDone
    \/ \E w \in Workers : WorkerStepValid(w)

PatientSpec == PatientInit /\ [][PatientNext]_vars

(* --------------- the updater: update_app ------------------------------- *)

\* self.apps[app_id]['uid'] = uid; self.apps[app_id]['secret'] = secret:
\* what the page shows, empty when the page shows none.
StoreCredentials(d, k, c) == [i \in DOMAIN Touch(d, k) |-> IF Touch(d, k)[i].key = k THEN [Touch(d, k)[i] EXCEPT !.uid = c, !.secret = c] ELSE Touch(d, k)[i]]

\* update_app(app_id), called by the caller or by update() for every id of
\* the console: ensure_session finds the cookie of the session.
UpdateApp(k) ==
    /\ caller = "updater"
    /\ main.pc = "idle"
    /\ main.req < MaxRequests
    /\ main' = [main EXCEPT !.pc = "ua_page", !.op = "update_app", !.k = k]
    /\ UNCHANGED <<ext, caller, apps, app_idx, responses, threads, thread_counter, stats, refresh_tokens_flag, now, stopFile, session, wk, cleared, picks, steady>>

\* update_app: the application page is fetched.  On 429 the code sleeps and
\* calls self.delete_app(app_id); on another failure it returns; on 200 the
\* credentials of the page are stored.
UpdatePage ==
    /\ main.pc = "ua_page"
    /\ main.req < MaxRequests
    /\ \E st \in PageStatuses, cred \in BOOLEAN :
          /\ stats' = Counted(stats, st)
          /\ apps' = IF st = 200 THEN StoreCredentials(apps, main.k, cred) ELSE apps
          /\ main' = [main EXCEPT !.req = @ + 1,
                                  !.pc = IF st = 429 THEN AfterEnsure(session) ELSE "idle",
                                  !.op = IF st = 429 THEN @ ELSE "",
                                  !.k = IF st = 429 THEN @ ELSE ""]
    /\ steady' = (steady /\ Keys(apps') = Keys(apps))
    /\ UNCHANGED <<ext, caller, app_idx, responses, threads, thread_counter, refresh_tokens_flag, now, stopFile, session, wk, cleared, picks>>

\* The caller updates apps of a fleet of one or two apps known to the
\* console, in a session that is logged in.
UpdaterInit ==
    /\ caller = "updater"
    /\ apps \in {<<FreshApp("a")>>, <<FreshApp("a"), FreshApp("b")>>, <<BareApp("a"), FreshApp("b")>>}
    /\ InitFields
    /\ responses = <<>>
    /\ session = TRUE
    /\ InitExt

UpdaterNext ==
    \/ \E k \in AppIds : UpdateApp(k)
    \/ UpdatePage
    \/ DeletePage
    \/ DeletePost

UpdaterSpec == UpdaterInit /\ [][UpdaterNext]_vars

(* --------------- the sizer: set_number_of_apps ------------------------- *)

\* The largest fleet and the largest target of the runs of the sizer.
MaxTarget == 3

\* The calls of set_number_of_apps in one run.
MaxCalls == 2

\* elif number_of_apps > 200
MaxNumberOfApps == 200

\* set_number_of_apps exists twice: in class FtApiHydra of FtApiHydra.py and
\* in class FtApiHydra of ApiHydra.py, which main.py imports.
Variants == {"FtApiHydra.py", "ApiHydra.py"}

\* The ids the web console gives to new apps, in the order it gives them.
IdPool == <<"a", "b", "c", "d", "e", "f", "g", "h", "i", "j", "k", "l", "m", "n", "o", "p", "q", "r", "s", "t", "u", "v", "w", "x", "y", "z">>

\* The targets a caller passes: in range, negative, above the cap.
Targets == (0..MaxTarget) \cup {-1, MaxNumberOfApps + 1}

\* create_app: self.apps[app_id]['id'] = app_id; update_app scrapes uid and
\* secret from the page of the app.
NewApp(k) == [key |-> k, id |-> TRUE, uid |-> TRUE, secret |-> TRUE, tok |-> "", exp |-> NoneExp]

\* k requests of the console session that were answered 2xx.
CountOk(s, k) == [s EXCEPT !.ok = @ + k, !.bytes = @ + k * BodyLen]

\* seq[:m] of Python.
SliceTo(q, m) == IF m >= 0 THEN SubSeq(q, 1, IF m < Len(q) THEN m ELSE Len(q)) ELSE SubSeq(q, 1, IF Len(q) + m > 0 THEN Len(q) + m ELSE 0)

\* for app_id in list(self.apps)[:-diff] (FtApiHydra.py), [:diff] (ApiHydra.py)
ToDelete(v, q, diff) == IF v = "FtApiHydra.py" THEN SliceTo(q, -diff) ELSE SliceTo(q, diff)

\* update() with a console that lists the apps of the fleet and answers every
\* request: FtApiHydra.py clears the fleet and adds every app anew, then
\* refresh_tokens stores a token for each; ApiHydra.py sets id, uid and
\* secret of every app and keeps the other fields.
UpdateFleet(v, d, t) == IF v = "FtApiHydra.py" THEN [i \in DOMAIN d |-> [NewApp(d[i].key) EXCEPT !.tok = "t1", !.exp = t + TokenTTL]] ELSE [i \in DOMAIN d |-> [d[i] EXCEPT !.id = TRUE, !.uid = TRUE, !.secret = TRUE]]

\* The requests update() makes: the overview page, the page of every app and
\* a token for every app.
UpdateRequests(d) == 1 + 2 * Len(d)

\* if update: self.update() (FtApiHydra.py);
\* if update and self.is_updated: self.update() (ApiHydra.py)
UpdatesFirst(v, update, is_updated) == update /\ (v = "FtApiHydra.py" \/ is_updated)

\* set_number_of_apps(number_of_apps, update=...) up to its loops.
SetNumberOfApps(n, update) ==
    /\ caller = "sizer"
    /\ main.pc = "idle"
    /\ main.calls < MaxCalls
    /\ LET u == UpdatesFirst(main.variant, update, main.is_updated)
           d == IF u THEN UpdateFleet(main.variant, apps, now) ELSE apps
           diff == n - Len(d)
       IN /\ apps' = d
          /\ stats' = IF u THEN CountOk(stats, UpdateRequests(apps)) ELSE stats
          /\ main' = [main EXCEPT !.calls = @ + 1, !.n = n, !.is_updated = @ \/ u, !.last = <<"set_number_of_apps">>,
                                  !.pc = IF n < 0 \/ n > MaxNumberOfApps \/ diff = 0 THEN "idle" ELSE IF diff < 0 THEN "sn_del" ELSE "sn_new",
                                  !.todo = IF n >= 0 /\ n <= MaxNumberOfApps /\ diff < 0 THEN ToDelete(main.variant, Keys(d), diff) ELSE <<>>,
                                  !.left = IF n >= 0 /\ n <= MaxNumberOfApps /\ diff > 0 THEN diff ELSE 0]
    /\ UNCHANGED <<ext, caller, app_idx, responses, threads, thread_counter, refresh_tokens_flag, now, stopFile, session, wk, cleared, picks, steady>>

\* The end of set_number_of_apps: FtApiHydra.py calls update() once more.
SetEnd(v, d, t) == IF v = "FtApiHydra.py" THEN UpdateFleet(v, d, t) ELSE d

\* One turn of the loop that deletes: delete_app fetches the page of the app
\* and posts the delete; after the last turn the call ends.
SetDelete ==
    /\ main.pc = "sn_del"
    /\ IF main.todo = <<>>
       THEN /\ apps' = SetEnd(main.variant, apps, now)
            /\ stats' = IF main.variant = "FtApiHydra.py" THEN CountOk(stats, UpdateRequests(apps)) ELSE stats
            /\ main' = [main EXCEPT !.pc = "idle", !.is_updated = @ \/ main.variant = "FtApiHydra.py"]
       ELSE /\ apps' = Del(apps, Head(main.todo))
            /\ stats' = CountOk(stats, 2)
            /\ main' = [main EXCEPT !.todo = Tail(@)]
    /\ UNCHANGED <<ext, caller, app_idx, responses, threads, thread_counter, refresh_tokens_flag, now, stopFile, session, wk, cleared, picks, steady>>

\* One turn of the loop that creates: create_app(update=False) in
\* FtApiHydra.py; create_app() in ApiHydra.py, which calls update() first
\* if the instance was never updated.  The form is fetched, the app is
\* posted (201) and its page is scraped.
SetCreate ==
    /\ main.pc = "sn_new"
    /\ main.ids < Len(IdPool)
    /\ IF main.left = 0
       THEN /\ apps' = SetEnd(main.variant, apps, now)
            /\ stats' = IF main.variant = "FtApiHydra.py" THEN CountOk(stats, UpdateRequests(apps)) ELSE stats
            /\ main' = [main EXCEPT !.pc = "idle", !.is_updated = @ \/ main.variant = "FtApiHydra.py"]
       ELSE LET u == main.variant = "ApiHydra.py" /\ ~main.is_updated
                d == IF u THEN UpdateFleet(main.variant, apps, now) ELSE apps
            IN /\ apps' = Append(d, NewApp(IdPool[main.ids + 1]))
               /\ stats' = CountOk(stats, 3 + (IF u THEN UpdateRequests(apps) ELSE 0))
               /\ main' = [main EXCEPT !.left = @ - 1, !.ids = @ + 1, !.is_updated = @ \/ u]
    /\ UNCHANGED <<ext, caller, app_idx, responses, threads, thread_counter, refresh_tokens_flag, now, stopFile, session, wk, cleared, picks, steady>>

\* A caller that is logged in to the console, with a fleet of 0..MaxTarget
\* apps the console knows, and either of the two classes.
SizerInit ==
    /\ caller = "sizer"
    /\ \E k \in 0..MaxTarget, v \in Variants :
          /\ apps = [i \in 1..k |-> FreshApp(IdPool[i])]
          /\ main = [InitMain EXCEPT !.variant = v, !.ids = k]
    /\ InitShared
    /\ responses = <<>>
    /\ session = TRUE
    /\ InitExt

SizerNext ==
    \/ \E n \in Targets, update \in BOOLEAN : SetNumberOfApps(n, update)
    \/ SetDelete
    \/ SetCreate

SizerSpec == SizerInit /\ [][SizerNext]_vars

(* ------------------ the rotor: get_next_app ---------------------------- *)

\* The calls of get_next_app the caller makes itself in one run.
MaxPicks == 4

\* The caller calls get_next_app() while no request is in flight.
CallGetNextApp ==
    /\ caller = "rotor"
    /\ main.pc = "idle"
    /\ Len(main.seq) < MaxPicks
    /\ \A w \in Workers : wk[w].pc = "unborn" \/ Ended(w)
    /\ IF Len(apps) = 0
       THEN /\ main' = [main EXCEPT !.pc = "crashed"]
            /\ UNCHANGED <<app_idx, picks>>
       ELSE /\ main' = [main EXCEPT !.seq = Append(@, [idx |-> app_idx, key |-> NextAppKey(apps, app_idx)])]
            /\ app_idx' = NextIdx(app_idx)
            /\ picks' = [picks EXCEPT ![NextAppKey(apps, app_idx)] = @ + 1]
    /\ UNCHANGED <<ext, caller, apps, responses, threads, thread_counter, stats, refresh_tokens_flag, now, stopFile, session, wk, cleared, steady>>

\* The steps of a worker that runs alone: it never waits for a refresh of
\* another worker.
WorkerStepAlone(w) ==
    \/ WStart(w) \/ WPick(w) \/ WIdxWrite(w)
    \/ WMkId(w) \/ WReadApp(w) \/ WCheck(w)
    \/ WRefreshBegin(w) \/ WRefreshLoop(w) \/ WRefreshClear(w)
    \/ WTokenPost(w) \/ WTokOkWrite(w) \/ WTokBytesWrite(w)
    \/ WTokNonOkWrite(w) \/ WRefreshStore(w) \/ WRefreshRet(w)
    \/ WSend(w) \/ WNonOkWrite(w) \/ WRetriesWrite(w)
    \/ WOkWrite(w) \/ WBytesWrite(w) \/ WAppend(w)

\* The fleets of the rotor: valid tokens, an expired token, an app without
\* credentials that the refresh will delete, and no app at all.
RotorFleets == {<<>>, <<FreshApp("a")>>, <<FreshApp("a"), FreshApp("b")>>, <<FreshApp("b"), FreshApp("a")>>, <<ExpiredApp("a"), FreshApp("b")>>, <<ExpiredApp("a"), BareApp("b")>>}

\* One request at most, and calls of get_next_app before and after it.
RotorInit ==
    /\ caller = "rotor"
    /\ apps \in RotorFleets
    /\ InitState
    /\ InitExt

RotorNext ==
    \/ CallGetNextApp
    \/ \E a \in Args : Get(a)
    \/ Join \/ JoinDone
    \/ \E w \in Workers : WorkerStepAlone(w)

RotorSpec == RotorInit /\ [][RotorNext]_vars

(* ---------------- the reader: lists handed to the caller --------------- *)

\* The caller of get_all_users_42berlin (src/main.py): requests for a path
\* on a fleet with a valid token, get_responses or get_responses_copy,
\* clear_responses, and further requests while it keeps the list.
ReaderInit ==
    /\ caller = "reader"
    /\ apps = <<FreshApp("a")>>
    /\ InitState
    /\ InitExt

ReaderNext ==
    \/ \E a \in Args : Get(a)
    \/ GetResponses \/ GetResponsesCopy \/ JoinDone \/ GotResponses \/ ClearResponses
    \/ \E w \in Workers : WorkerStepValid(w)

ReaderSpec == ReaderInit /\ [][ReaderNext]_vars

(* ------------------------------ properties ----------------------------- *)

\* C1 (bounded retries): whatever the upstream answers, a worker performs at
\* most max_retries + 1 SEND attempts before it ends.
BoundedRetries == \A w \in Workers : wk[w].attempts <= max_retries + 1

\* A worker gave up (data loss) after exactly max_retries + 1 attempts.
BoundedRetries_witness == \E w \in Workers : wk[w].pc = "end_loss" /\ wk[w].attempts = max_retries + 1

Submitted == {w \in Workers : wk[w].pc # "unborn" /\ wk[w].has}

Dropped == {w \in Workers : wk[w].pc = "end_loss"}

\* No request went through the session wrappers so far: the caller made no
\* console request and no token was fetched (a fetched token stays in the
\* fleet, and a refused fetch ends its worker with an exception).
NoSessionRequest == main.req = 0 /\ \A i \in DOMAIN apps : apps[i].tok # "t1"

\* C2 (completeness): after join() has returned, ok_requests + dropped URLs
\* = submitted URLs.  Stated for the runs that favour it most: every worker
\* ended in OK or in data loss (none was stopped, none raised) and only the
\* workers' own sends were counted.
Completeness ==
    (threads = <<>> /\ main.pc = "idle" /\ NoSessionRequest /\ \A w \in Workers : wk[w].pc \in {"unborn", "end_ok", "end_loss"})
        => stats.ok + Cardinality(Dropped) = Cardinality(Submitted)

\* refresh_tokens is between its first and its last statement in thread w.
Refreshing(w) == wk[w].pc \in {"rf_loop", "rf_post", "rf_ok_w", "rf_by_w", "rf_nonok_w", "rf_store"}

\* C3 (barrier correctness): no worker reads an app's access token while an
\* execution of refresh_tokens is in progress.
BarrierCorrectness == [][\A w \in Workers : (wk[w].pc = "rd_app" /\ wk'[w].pc = "chk") => ~\E v \in Workers : Refreshing(v)]_vars

TotalPicks == picks["a"] + picks["b"]

\* C4 (rotation fairness): with a fleet of N apps that never changed, after
\* K >= N picks each app was returned floor(K/N) or ceil(K/N) times.
RotationFairness ==
    (steady /\ Len(apps) > 0 /\ TotalPicks >= Len(apps))
        => \A i \in DOMAIN apps : picks[apps[i].key] \in {TotalPicks \div Len(apps), (TotalPicks + Len(apps) - 1) \div Len(apps)}

\* C5 (token freshness at use): a worker that goes on to SEND with an app's
\* token found the expiry of that app known and later than now.
FreshAtUse == [][\A w \in Workers : (wk[w].pc = "chk" /\ wk'[w].pc = "send") => (wk[w].exp # NoneExp /\ wk[w].exp > now)]_vars

\* C6 (termination): under fair scheduling every started worker eventually
\* ends, and a join() that was called eventually returns.
WorkersEnd == (\A w \in Workers : (wk[w].pc = "start") ~> Ended(w)) /\ ((main.pc = "join") ~> (main.pc = "idle"))

\* C7 (monotonic statistics): no step decreases ok_requests,
\* non_ok_requests, retries or response_bytes.  Stated for the runs in
\* which only the workers update the counters (the caller made no request
\* of its own).
CountersMonotonic == [][main.req = 0 => (stats'.ok >= stats.ok /\ stats'.non_ok >= stats.non_ok /\ stats'.retries >= stats.retries /\ stats'.bytes >= stats.bytes)]_vars

\* C8 (non-empty for dispatch): get_next_app is never called while the
\* fleet is empty.
NeverPickFromEmptyFleet == \A w \in Workers : wk[w].exc # "ZeroDivisionError:get_next_app"

RecordsOf(w) == {i \in DOMAIN responses : responses[i].w = w}

\* The sink invariants: every record is the normalized URL of its request
\* with a 200 answer, a request has at most one record, and as many records
\* were appended as workers ended in OK.
SinkSound ==
    /\ \A i \in DOMAIN responses : responses[i].status = 200 /\ responses[i].url = (IF wk[responses[i].w].arg[1] = "/" THEN api_base \o wk[responses[i].w].arg ELSE wk[responses[i].w].arg)
    /\ \A w \in Workers : Cardinality(RecordsOf(w)) <= 1
    /\ Len(responses) + Cardinality(cleared) = Cardinality({w \in Workers : wk[w].pc = "end_ok"})

\* One GET of the path was submitted and its only SEND was answered 200.
SingleSuccess == thread_counter = 1 /\ wk[1].pc = "end_ok" /\ wk[1].arg = PathUrl /\ wk[1].attempts = 1 /\ cleared = {}

SingleSuccessResult == responses = <<[url |-> api_base \o PathUrl, status |-> 200, w |-> 1, body |-> Body200]>> /\ stats.ok = 1 /\ stats.non_ok = 0

ResponsesAfterJoin ==
    main.pc = "got" => /\ \A w \in 1..thread_counter : Ended(w)
                       /\ \A w \in 1..thread_counter : (wk[w].pc = "end_ok" /\ w \notin cleared) => RecordsOf(w) # {}

\* get_responses returned the records of two workers that ended in OK.
ResponsesAfterJoin_witness == main.pc = "got" /\ thread_counter = 2 /\ Len(responses) = 2 /\ \A w \in 1..2 : wk[w].pc = "end_ok"

\* C11 (copy and live list): a step that changes the sink (an append of a
\* worker, clear_responses) leaves the list get_responses_copy returned as
\* it was, and shows in the list get_responses returned, which
\* clear_responses empties.
CopyKeepsLiveFollows ==
    [][(responses' # responses /\ held' = held) =>
          /\ held.by = "get_responses_copy" => ListOf(held)' = ListOf(held)
          /\ held.by = "get_responses" => (ListOf(held)' = responses' /\ (responses' = <<>> => ListOf(held)' = <<>>))]_vars

\* The caller holds a copy with a record in it, after clear_responses
\* emptied the sink and a later worker appended to it.
CopyKeepsLiveFollows_witness == held.by = "get_responses_copy" /\ Len(ListOf(held)) = 1 /\ ListOf(held)[1].w = 1 /\ cleared = {1} /\ Len(responses) = 1 /\ responses[1].w = 2

\* The keys of the fleet d ascend in the order of the strings.
Ascending(d) == \A i \in DOMAIN d : \A j \in DOMAIN d : i < j => \E x \in DOMAIN KeyOrder : \E y \in DOMAIN KeyOrder : x < y /\ KeyOrder[x] = d[i].key /\ KeyOrder[y] = d[j].key

\* The step is a deserialize that follows a serialize which wrote the file.
LoadsWhatWasSaved == main.last = <<"serialize">> /\ main'.last = <<"deserialize">> /\ disk.apps_writable

\* C12 (round trip of the credentials): serialize followed by deserialize
\* yields the same fleet, the app ids with their records in the same order.
RoundTripCredentials == [][LoadsWhatWasSaved => apps' = apps]_vars

\* C12 (amended): serialize followed by deserialize yields the same app ids
\* with the same records, in ascending order of the ids.
RoundTripCredentialsSorted == [][LoadsWhatWasSaved => (Len(apps') = Len(apps) /\ {apps'[i] : i \in DOMAIN apps'} = {apps[i] : i \in DOMAIN apps} /\ Ascending(apps'))]_vars

\* A fleet that held b before a was saved and loaded: a comes first now.
RoundTripCredentialsSorted_witness == main.last = <<"deserialize">> /\ ~steady /\ disk.apps_writable /\ disk.apps_file = [kind |-> "json", val |-> apps] /\ apps = <<FreshApp("a"), BareApp("b")>>

\* What a reader of the file f gets: the (url, body) pairs of the sink, one
\* per record, in the order of the sink.
ReadsBack(f, sink) == f.kind = "responses" /\ Len(f.val) = Len(sink) /\ \A i \in DOMAIN sink : f.val[i][1] = sink[i].url /\ Utf8Encode(f.val[i][2]) = sink[i].body

\* The files the step wrote.
Written == {f \in disk'.files : f \notin disk.files}

\* The step is a serialize_responses of the caller that wrote a file, on a
\* sink whose bodies are valid UTF-8.
WritesValidSink == main'.last = <<"serialize_responses">> /\ disk.files = {} /\ Written # {} /\ responses # <<>> /\ \A i \in DOMAIN responses : ValidUtf8(responses[i].body)

\* C13 (round trip of the responses): for a sink whose bodies are valid
\* UTF-8 JSON, the file serialize_responses wrote reads back as the same
\* (url, body) pairs, one per record, in the order of the sink.
RoundTripResponses == [][WritesValidSink => \A f \in Written : ReadsBack(f, responses)]_vars

\* C14 (shutdown): __del__ always saves the credentials, and it serializes
\* the responses if and only if finish() was not called before.
ShutdownSaves ==
    main.pc = "gone" =>
        /\ main.last[1] = "serialize"
        /\ disk.apps_writable => (disk.apps_file.kind = "json" /\ Len(disk.apps_file.val) = Len(apps) /\ \A i \in DOMAIN apps : Has(disk.apps_file.val, apps[i].key) /\ Lookup(disk.apps_file.val, apps[i].key) = apps[i])
        /\ ("serialize_responses" \in {main.last[i] : i \in DOMAIN main.last}) <=> ~main.finish_called
        /\ (disk.cwd_writable /\ ~main.finish_called) => \E f \in disk.files : f.ts = now /\ f.dir = "cwd" /\ Len(f.val) = Len(responses)

\* __del__ ran after finish(): the credentials are in the file and no
\* response file was written, although the sink holds two records.
ShutdownSaves_witness == main.pc = "gone" /\ main.finish_called /\ disk.files = {} /\ Len(responses) = 2 /\ disk.cwd_writable /\ disk.apps_file = [kind |-> "json", val |-> <<FreshApp("a"), BareApp("b")>>] /\ ~Ascending(apps)

\* C20 (deserialize): malformed JSON leaves the fleet as it was, a missing
\* file leaves the fleet empty, and otherwise the fleet is the mapping the
\* file holds.
DeserializeCases ==
    [][main'.last = <<"deserialize">> =>
          /\ disk.apps_file.kind = "malformed" => apps' = apps
          /\ disk.apps_file.kind = "missing" => apps' = <<>>
          /\ disk.apps_file.kind = "json" => apps' = disk.apps_file.val]_vars

\* C20 (amended): malformed JSON and a missing file both leave the fleet as
\* it was before the call (empty when the constructor calls deserialize),
\* and otherwise the fleet is the mapping the file holds.
DeserializeCasesKept ==
    [][main'.last = <<"deserialize">> =>
          /\ disk.apps_file.kind = "malformed" => apps' = apps
          /\ disk.apps_file.kind = "missing" => apps' = apps
          /\ disk.apps_file.kind = "json" => apps' = disk.apps_file.val]_vars

\* deserialize was called on a missing file and the fleet still holds an app.
DeserializeCasesKept_witness == main.last = <<"deserialize">> /\ disk.apps_file.kind = "missing" /\ apps = <<FreshApp("a")>>

\* C18 (pacing): after it started a worker, get/post slept for
\* max(min_request_delay, 1/(requests_per_second * N)), which is never
\* shorter than min_request_delay.
PacingFloor ==
    (thread_counter > 0 /\ main.pc # "crashed" /\ steady) =>
        /\ RatEq(main.pause, RatMax(conf.min_request_delay, RatInv(RatMul(conf.requests_per_second, Rat(Len(apps), 1)))))
        /\ ~RatLess(main.pause, conf.min_request_delay)

RECURSIVE RatPow(_, _)
RatPow(x, k) == IF k = 0 THEN Rat(1, 1) ELSE RatMul(x, RatPow(x, k - 1))

\* The worker w is about to sleep after a failed attempt.
Sleeps(w) == wk[w].pc = "nonok_w" /\ wk'[w].pc # "nonok_w"

\* C19 (backoff): after its k-th failed attempt in a row (k = 0, 1, ...) a
\* worker sleeps delay0 * retry_delay_factor^k, delay0 = 1/N for the fleet
\* size N at its start.
BackoffGeometric == [][\A w \in Workers : Sleeps(w) => RatEq(wk[w].delay, RatMul(Rat(1, wk[w].n0), RatPow(conf.retry_delay_factor, wk[w].retries)))]_vars

\* A worker on a fleet of two is about to sleep (1/2) * 1.1 after its
\* second failed attempt.
BackoffGeometric_witness == \E w \in Workers : wk[w].pc = "nonok_w" /\ wk[w].retries = 1 /\ wk[w].attempts = 2 /\ wk[w].n0 = 2 /\ Len(apps) = 2 /\ RatEq(wk[w].delay, Rat(11, 20)) /\ ~RatEq(wk[w].delay, Rat(1, 2))

\* The admission check has found the stop file.
Detected == main.op = "exit" \/ main.pc = "exit42"

\* The worker sends its request in this step.
Sends(w) == wk[w].pc = "send" /\ wk'[w].pc # "send"

InFlightCap == ActiveWorkers <= 2 * Len(apps) + 1

\* C16 (amended): before each submit, if more than 2*N workers are active
\* the submit path blocks until fewer than N are, and the number of
\* in-flight workers never exceeds 2*N + 1, N being the size of the fleet at
\* the latest admission check that let a submit through.
InFlightCapAdmitted ==
    /\ [](ActiveWorkers <= 2 * main.n_adm + 1)
    /\ [][main.pc = "er_block" /\ main'.pc # "er_block" => ActiveWorkers < Len(apps)]_vars

\* Three workers are in flight on a fleet of one app and the fourth get is
\* blocked.
InFlightCapAdmitted_witness == main.pc = "er_block" /\ ActiveWorkers = 3 /\ Len(apps) = 1 /\ main.n_adm = 1

\* The part files that hold the record of worker w.
PartFilesOf(w) == {f \in disk.files : f.kind = "responses" /\ w \in f.of}

\* C17: when the sink holds more than the threshold at an admission check,
\* all workers are joined, the sink is written to a part file, the part
\* index is incremented and the sink is cleared, so that every record is
\* written to exactly one part file and the sink never grows past the
\* threshold plus the in-flight workers.
SinkCheckpointed ==
    /\ [][main.pc = "er_sink" /\ SinkFull(responses) /\ main' # main => main'.pc = "join" /\ main'.op = "checkpoint"]_vars
    /\ [][main.pc = "ckpt" /\ main' # main =>
            /\ \A w \in 1..thread_counter : Ended(w)
            /\ response_serialization_part' = response_serialization_part + 1
            /\ responses' = <<>>
            /\ \E f \in disk'.files : f.kind = "responses" /\ f.part = response_serialization_part /\ f.of = {responses[i].w : i \in DOMAIN responses}]_vars
    /\ [](\A w \in cleared : Cardinality(PartFilesOf(w)) = 1)
    /\ [](Len(responses) <= SinkThreshold + 2 * main.n_adm + 1)

\* The step is a serialize_responses of the caller on a sink with records,
\* while the directory of the primary file cannot be written and /tmp can.
WritesToFallback == main'.last = <<"serialize_responses">> /\ disk.files = {} /\ responses # <<>> /\ ~disk.cwd_writable /\ disk.tmp_writable

\* C21 (fallback of serialize_responses): when the primary file cannot be
\* opened for writing, the /tmp fallback file is written with the same
\* [url, body] pairs the primary file would have held.
FallbackHoldsResponses == [][WritesToFallback => \E f \in Written : f.dir = "tmp" /\ f.kind = "responses" /\ f.val = Serializable(responses)]_vars

\* C22 (bearer shaping): every request is sent with the header
\* Authorization carrying the token of the app picked for the attempt, and
\* with every header the caller passed to get or post.
HeadersKept ==
    [][\A w \in Workers : Sends(w) =>
          /\ "Authorization" \in wk[w].hdrs
          /\ wk[w].tok = RefRec(apps, wk[w].app).tok
          /\ wk[w].given \subseteq wk[w].hdrs]_vars

\* set_number_of_apps(n) with 0 <= n <= 200 has returned.
SetReturned == main.pc = "idle" /\ main.last = <<"set_number_of_apps">> /\ main.n >= 0 /\ main.n <= MaxNumberOfApps

\* C23 (set_number_of_apps): with 0 <= n <= 200 and every upstream call
\* succeeding, the call leaves the fleet with exactly n apps, whatever its
\* size was before.
ExactlyN == SetReturned => Len(apps) = main.n

\* C24 (round robin): on a non-empty fleet of N apps that does not change,
\* get_next_app returns the app at position (cursor mod N) of the insertion
\* order and then increases the cursor by exactly one; with fleet {a, b} and
\* four sequential picks from cursor 0 the apps are a, b, a, b.
RoundRobin ==
    /\ [](steady => \A j \in DOMAIN main.seq : main.seq[j].key = Keys(apps)[(main.seq[j].idx % Len(apps)) + 1])
    /\ [][main'.seq # main.seq => app_idx' = app_idx + 1]_vars
    /\ []((steady /\ Keys(apps) = <<"a", "b">> /\ Len(main.seq) >= 4 /\ main.seq[1].idx = 0 /\ main.seq[4].idx = 3) => [j \in 1..4 |-> main.seq[j].key] = <<"a", "b", "a", "b">>)

\* Four sequential picks on the fleet {a, b} gave a, b, a, b.
RoundRobin_witness == Keys(apps) = <<"a", "b">> /\ steady /\ Len(main.seq) = 4 /\ app_idx = 4 /\ [j \in 1..4 |-> main.seq[j].key] = <<"a", "b", "a", "b">>

\* The worker w sends a retry, with an app picked for it.
Retries(w) == Sends(w) /\ wk[w].prev # "" /\ wk[w].n0 >= 2

\* C25 (rotation on retry): every attempt of a worker calls get_next_app
\* exactly once, and a worker running alone on a fleet of N >= 2 apps never
\* uses the same app in two consecutive attempts.
RetryRotates ==
    /\ [][\A w \in Workers : Sends(w) => TotalPicks = Len(main.seq) + wk[w].attempts + 1]_vars
    /\ [][\A w \in Workers : Retries(w) => wk[w].app.key # wk[w].prev]_vars

\* C25 (amended): every attempt of a worker calls get_next_app exactly once,
\* and a worker running alone on a fleet of N >= 2 apps whose list of apps
\* does not change never uses the same app in two consecutive attempts.
RetryRotatesSteady ==
    /\ [][\A w \in Workers : Sends(w) => TotalPicks = Len(main.seq) + wk[w].attempts + 1]_vars
    /\ [][\A w \in Workers : (Retries(w) /\ steady) => wk[w].app.key # wk[w].prev]_vars

\* The worker failed with app a and is about to send its retry with app b.
RetryRotatesSteady_witness == wk[1].pc = "send" /\ wk[1].prev = "a" /\ wk[1].app.key = "b" /\ wk[1].attempts = 1 /\ steady /\ Len(apps) = 2

\* The worker w leaves get_token with a non-200 answer for the app of its turn.
TokenRefused(w) == wk[w].pc = "rf_store" /\ wk[w].rst # 200 /\ wk'[w] # wk[w]

\* C26 (refused token): when the token endpoint answers non-200 for an app,
\* refresh_tokens stores an empty access token and the expiry -1 for it and
\* goes on with the next app of the snapshot.
RefusedTokenRecorded ==
    [][\A w \in Workers : TokenRefused(w) =>
          /\ Has(apps', wk[w].snap[wk[w].i].key)
          /\ Lookup(apps', wk[w].snap[wk[w].i].key).tok = ""
          /\ Lookup(apps', wk[w].snap[wk[w].i].key).exp = -1
          /\ wk'[w].pc = "rf_loop" /\ wk'[w].i = wk[w].i + 1]_vars

\* C27 (the flag is cleared): under fair scheduling the refreshing flag,
\* once set, is eventually cleared, and a worker that waits on it eventually
\* goes on.
FlagCleared ==
    /\ refresh_tokens_flag ~> ~refresh_tokens_flag
    /\ \A w \in Workers : (wk[w].pc = "wait") ~> (wk[w].pc # "wait")

\* The worker w executes the last statement of refresh_tokens.
Completes(w) == wk[w].pc = "rf_loop" /\ wk'[w].pc = "rf_ret"

\* C28 (apps without credentials): when refresh_tokens completes, no app
\* with an empty uid or an empty secret is in the fleet, and every app of
\* its snapshot that had both is in the fleet with uid and secret unchanged.
RefreshPrunes ==
    [][\A w \in Workers : Completes(w) =>
          /\ \A i \in DOMAIN apps' : ~NoCredentials(apps'[i])
          /\ \A j \in DOMAIN wk[w].snap : ~NoCredentials(wk[w].snap[j]) =>
                (Has(apps', wk[w].snap[j].key) /\ ~NoCredentials(Lookup(apps', wk[w].snap[j].key)))]_vars

\* No worker was ended by an exception.
NoneRaised == \A w \in Workers : wk[w].pc # "end_exc"

\* C29 (one refresh at a time): at most one execution of refresh_tokens is
\* in progress, and the refreshing flag is set exactly while one is.  Stated
\* for the runs that favour it most: no execution was cut short by an
\* exception.
OneRefresh ==
    NoneRaised =>
        /\ Cardinality({w \in Workers : Refreshing(w)}) <= 1
        /\ refresh_tokens_flag <=> \E w \in Workers : Refreshing(w)

\* The run of one caller with one request on the fleet {a}, a's token
\* expired.
OneExpiredApp == caller = "solo" /\ disk.apps_file = [kind |-> "json", val |-> <<ExpiredApp("a")>>]

\* C30 (refresh before use): with fleet {a} whose token has expired and one
\* GET, the token endpoint is called exactly once before the request is
\* sent, the request goes out with the new token and, answered 200,
\* succeeds, and a's expiry is later than now afterwards.
RefreshBeforeSend ==
    /\ [][(OneExpiredApp /\ Sends(1) /\ wk[1].attempts = 0) =>
            /\ stats.ok + stats.non_ok = 1
            /\ wk[1].tok = "t1"
            /\ Lookup(apps, "a").tok = "t1"
            /\ Lookup(apps, "a").exp > now]_vars
    /\ []((OneExpiredApp /\ wk[1].pc = "end_ok" /\ wk[1].attempts = 1) =>
            /\ stats.ok = 2 /\ stats.non_ok = 0
            /\ Len(responses) + Cardinality(cleared) = 1
            /\ Lookup(apps, "a").exp > now)

\* The GET on the expired fleet ended in OK after one token fetch and one send.
RefreshBeforeSend_witness == OneExpiredApp /\ wk[1].pc = "end_ok" /\ wk[1].attempts = 1 /\ stats.ok = 2 /\ Lookup(apps, "a").tok = "t1" /\ Len(responses) = 1

\* C31 (permanent not-found): a worker that is answered 404 after more
\* than 5 retries ends at once, without another attempt.  In the runs of
\* the patient caller every answer other than 200 is a 404.
PermanentNotFound ==
    [][\A w \in Workers :
          (caller = "patient" /\ wk[w].pc = "nonok_w" /\ wk[w].retries > 5 /\ wk'[w] # wk[w])
             => wk'[w].pc \in EndPcs]_vars

\* C32 (transport error): an attempt whose HTTP call raises a transport
\* error is handled as a failed attempt: the worker goes on to count it in
\* non_ok_requests and never ends with the exception.
TransportErrorRetried ==
    /\ [][\A w \in Workers : Sends(w) => wk'[w].pc \in {"ok_w", "nonok_w"}]_vars
    /\ [](\A w \in Workers : wk[w].exc # "ConnectionError")

\* C34 (retries counter, as stated): a worker that runs alone and fails on
\* every attempt has added max_retries + 1 to the retries counter.
RetriesCountFailures ==
    \A w \in Workers :
        (thread_counter = 1 /\ wk[w].pc = "end_loss") => stats.retries = MaxRetriesOf(caller) + 1

\* C34 (retries counter, amended): the counter is incremented once for
\* every attempt after the first, when the retry begins; the failed attempt
\* after which the worker gives up is not counted, so a worker that runs
\* alone and fails on every attempt has added max_retries.
RetriesCountRetries ==
    \A w \in Workers :
        (thread_counter = 1 /\ wk[w].pc \notin {"unborn", "start"} /\ wk[w].exc = "") =>
            /\ wk[w].pc \notin EndPcs =>
                  /\ stats.retries = wk[w].retries - (IF wk[w].pc = "retr_w" THEN 1 ELSE 0)
                  /\ wk[w].attempts = wk[w].retries + (IF wk[w].pc \in {"nonok_w", "ok_w", "by_w", "append"} THEN 1 ELSE 0)
            /\ wk[w].pc \in EndPcs => stats.retries = wk[w].attempts - 1
            /\ wk[w].pc = "end_loss" =>
                  /\ stats.retries = MaxRetriesOf(caller)
                  /\ stats.non_ok = MaxRetriesOf(caller) + 1

\* A worker gave up after failing on every attempt, with many retries allowed.
RetriesCountRetries_witness ==
    \E w \in Workers : caller = "patient" /\ wk[w].pc = "end_loss" /\ wk[w].attempts = PatientRetries + 1 /\ stats.retries = PatientRetries

\* C33 (no URL): a worker invoked without a URL argument ends in its first
\* step, sends nothing, and leaves the sink, the statistics counters, the
\* fleet and the rotation cursor as they were.
NoUrlNoEffect ==
    /\ [][\A w \in Workers :
            (wk[w].pc = "start" /\ ~wk[w].has /\ wk'[w] # wk[w]) =>
                /\ wk'[w].pc = "end_nourl" /\ wk'[w].attempts = 0
                /\ UNCHANGED <<responses, stats, apps, app_idx, picks>>]_vars
    /\ [][\A w \in Workers : wk[w].pc = "end_nourl" => wk'[w] = wk[w]]_vars
    /\ [](\A w \in Workers : (~wk[w].has /\ wk[w].pc # "unborn") => wk[w].pc \in {"start", "end_nourl"})
    /\ []((caller = "solo" /\ wk[1].pc = "end_nourl") =>
            /\ responses = <<>> /\ cleared = {}
            /\ stats.ok = 0 /\ stats.non_ok = 0 /\ stats.retries = 0 /\ stats.bytes = 0
            /\ app_idx = 0 /\ \A k \in AppIds : picks[k] = 0)

\* The only worker of the run was invoked without a URL and has ended.
NoUrlNoEffect_witness == caller = "solo" /\ wk[1].pc = "end_nourl" /\ ~wk[1].has /\ wk[1].attempts = 0 /\ Len(apps) > 0 /\ app_idx = 0

\* C35 (removed apps stay removed): in runs without update and create_app
\* no step puts an app id into the fleet that was not in it: what
\* refresh_tokens or delete_app removed is never back.
NeverReinserted ==
    [][\A k \in AppIds : Has(apps', k) => Has(apps, k)]_vars

\* C36 (update_app does not delete): while update_app(app_id) runs, no
\* delete request is posted for the app and no app leaves the fleet,
\* whatever status the application page returns.
UpdateKeepsApp ==
    /\ [](main.op = "update_app" => main.pc # "da_post")
    /\ [][main.op = "update_app" => \A k \in AppIds : Has(apps, k) => Has(apps', k)]_vars

\* C37 (delete only on 200): a step of delete_app changes the fleet only
\* when it is the delete request answered 200, and then it removes app_id
\* and nothing else; on a failed page fetch, a missing csrf-token or a
\* refused delete the fleet is as it was.
DeleteOnlyOn200 ==
    [][(main.op = "delete_app" /\ main' # main) =>
          \/ apps' = apps
          \/ /\ main.pc = "da_post"
             /\ stats'.ok = stats.ok + 1
             /\ apps' = Del(apps, main.k)]_vars

\* With no worker started, a is gone from the fleet after delete_app('a'):
\* the delete request was answered 200.
DeleteOnlyOn200_witness == caller = "admin" /\ thread_counter = 0 /\ main.pc = "idle" /\ ~Has(apps, "a") /\ stats.ok >= 1 /\ main.req >= 2

====
